---- MODULE Spec2Model ----
(***************************************************************************)
(* A model of the geospatial core of the Sales_Map scripts:                *)
(*   - haversine and the route (proximity) loops of route_map.py and       *)
(*     dashboard.py,                                                       *)
(*   - identify_sweet_spots of sweet_spot_map.py.                          *)
(*                                                                         *)
(* Floats are modelled in fixed point.  Coordinates are integers in        *)
(* hundredths of a degree; angles and trigonometric values are integers    *)
(* scaled by SCALE; a haversine distance is an integer in 1/SCALE km.      *)
(* The float NaN is the distinguished value NaN, and every operator that   *)
(* reads a float treats it as IEEE-754 does (arithmetic propagates it,     *)
(* every ordered comparison with it is false).                             *)
(***************************************************************************)
EXTENDS Integers, Sequences, FiniteSets, TLC

VARIABLES
    cities,          \* the located points handed to the route loops
    rpc,             \* route scripts: the set of steps that have run
    location_pairs,  \* create_route_map: the sorted list of route edges
    route_records,   \* generate_central_csv: the 'route' records, in emission order
    df,              \* the visits DataFrame handed to identify_sweet_spots
    grid_size,       \* identify_sweet_spots argument (hundredths of a degree)
    min_visits,      \* identify_sweet_spots argument
    spc,             \* sweet spot script: the set of steps that have run
    sweet_spots,     \* identify_sweet_spots: the returned rows, in output order
    raised,          \* sweet spot script: the exception raised, "" when none
    clock,           \* the wall clock, in half days since the first run
    runs,            \* the pipeline runs made so far, with their aggregate outputs
    script,          \* the script of the current or last process, "" before any
    pc,              \* the step of the script the process is at
    exc,             \* the exception being raised, "" when none
    caught,          \* main's except block ran and printed the stack trace
    prompted,        \* the 'Press Enter to exit' prompt was reached
    status,          \* "idle", "running", "exit_ok" or "exit_unhandled"
    run_no,          \* the number of script runs started
    config_file,     \* config.json as the run finds it: "ok", "missing", "malformed"
    outputs,         \* the files in the outputs directory, with the run that wrote each
    written,         \* the files the current or last run wrote
    failed_at,       \* the step of the run that raised, 0 when none
    pair,            \* the two points handed to the distance functions
    dist,            \* the distances computed for the pair, per function and order
    markers,         \* create_sweet_spot_map: the circle drawn for each sweet spot
    summary,         \* print_summary_statistics: the tier counts printed
    spot_count,      \* a visit_count handed to the two categorisations
    labels,          \* the category each categorisation gave to spot_count
    cityData,        \* the page's cityData: name, lat, lon of each city
    nodes,           \* the page's elements: classes, parent, what each depicts
    display,         \* style.display of each element, "" when never set
    currentFilter,   \* the page's currentFilter, <<>> for null
    map,             \* the page's map reference: "undefined" or "leaflet"
    timer_fired,     \* the 100 ms timer that assigns map has run
    cityFilter,      \* the text in the cityFilter input
    last_call,       \* the last handler run: function, term, match, exception
    config,          \* generate_synthetic_sales: config['cities'] of the last call
    n_records,       \* generate_synthetic_sales argument, 0 before any call
    beat_cities,     \* generate_synthetic_sales: the beats, in insertion order
    stores,          \* generate_synthetic_sales: every store generated, in order
    sales,           \* generate_synthetic_sales: the returned records, in order
    regional         \* export_to_excel: the rows of the 'Regional Analysis' sheet

vars == <<cities, rpc, location_pairs, route_records,
          df, grid_size, min_visits, spc, sweet_spots, raised,
          clock, runs,
          script, pc, exc, caught, prompted, status, run_no, config_file,
          outputs, written, failed_at,
          pair, dist,
          markers, summary, spot_count, labels,
          cityData, nodes, display, currentFilter, map, timer_fired,
          cityFilter, last_call,
          config, n_records, beat_cities, stores, sales, regional>>

routeVars == <<cities, rpc, location_pairs, route_records>>
sweetVars == <<df, grid_size, min_visits, spc, sweet_spots, raised>>
pipeVars == <<clock, runs>>
mainVars == <<script, pc, exc, caught, prompted, status, run_no, config_file,
              outputs, written, failed_at>>
distVars == <<pair, dist>>
tierVars == <<markers, summary, spot_count, labels>>
pageVars == <<cityData, nodes, display, currentFilter, map, timer_fired,
              cityFilter, last_call>>
salesVars == <<config, n_records, beat_cities, stores, sales, regional>>

(***************************************************************************)
(* Fixed-point floats                                                      *)
(***************************************************************************)
\* The float NaN (a sentinel outside the range of every modelled value).
NaN == 0 - 2000000000

IsNaN(x) == x = NaN

\* Fixed-point scale of angles (radians) and of sin, cos, sqrt values.
SCALE == 10000

\* pi * SCALE.
PI_S == 31416

Abs(x) == IF x < 0 THEN 0 - x ELSE x

\* x * y of two SCALE-d values, SCALE-d (truncating toward zero like a
\* correctly signed float product).
Mul(x, y) ==
    IF (x < 0) = (y < 0) THEN (Abs(x) * Abs(y)) \div SCALE
    ELSE 0 - ((Abs(x) * Abs(y)) \div SCALE)

\* math.radians of a coordinate in hundredths of a degree.  The result is
\* kept even so that the later division by 2 is exact, as it is in floats.
radians(d) ==
    IF IsNaN(d) THEN NaN
    ELSE IF d < 0 THEN 0 - 2 * ((Abs(d) * PI_S) \div 36000)
    ELSE 2 * ((d * PI_S) \div 36000)

\* math.sin for |x| <= pi/2 (Taylor, odd).
SinPos(x) ==
    LET x2 == Mul(x, x)
        x3 == Mul(x2, x)
        x5 == Mul(x3, x2)
        x7 == Mul(x5, x2)
    IN  x - (x3 \div 6) + (x5 \div 120) - (x7 \div 5040)

sin(x) ==
    IF IsNaN(x) THEN NaN
    ELSE IF x < 0 THEN 0 - SinPos(0 - x) ELSE SinPos(x)

\* math.cos for |x| <= pi/2 (Taylor, even).
cos(x) ==
    IF IsNaN(x) THEN NaN
    ELSE LET a  == Abs(x)
             x2 == Mul(a, a)
             x4 == Mul(x2, x2)
             x6 == Mul(x4, x2)
         IN  SCALE - (x2 \div 2) + (x4 \div 24) - (x6 \div 720)

\* The largest r with r*r <= n, by bisection on lo..hi.
RECURSIVE ISqrtIn(_, _, _)
ISqrtIn(n, lo, hi) ==
    IF lo >= hi THEN lo
    ELSE LET mid == (lo + hi + 1) \div 2
         IN  IF mid * mid <= n THEN ISqrtIn(n, mid, hi)
             ELSE ISqrtIn(n, lo, mid - 1)

\* math.sqrt of a value scaled by SCALE*SCALE; the result is SCALE-d.
sqrt(a2) == IF IsNaN(a2) THEN NaN ELSE ISqrtIn(a2, 0, 2 * SCALE)

\* math.asin for 0 <= y (Taylor).
asin(y) ==
    IF IsNaN(y) THEN NaN
    ELSE LET y2 == Mul(y, y)
             y3 == Mul(y2, y)
             y5 == Mul(y3, y2)
             y7 == Mul(y5, y2)
         IN  y + (y3 \div 6) + ((3 * y5) \div 40) + ((15 * y7) \div 336)

\* x + y, x - y, x * y on floats that may be NaN.
FAdd(x, y) == IF IsNaN(x) \/ IsNaN(y) THEN NaN ELSE x + y
FSub(x, y) == IF IsNaN(x) \/ IsNaN(y) THEN NaN ELSE x - y
FMul(x, y) == IF IsNaN(x) \/ IsNaN(y) THEN NaN ELSE Mul(x, y)
FHalf(x)   == IF IsNaN(x) THEN NaN ELSE x \div 2
\* x ** 2 of a SCALE-d value, scaled by SCALE*SCALE.
FSquare(x) == IF IsNaN(x) THEN NaN ELSE x * x
\* x * y of two SCALE-d values, scaled by SCALE*SCALE.
FMulWide(x, y) == IF IsNaN(x) \/ IsNaN(y) THEN NaN ELSE x * y
\* x < y on floats: false when either side is NaN.
FLess(x, y) == ~IsNaN(x) /\ ~IsNaN(y) /\ x < y

\* Mean earth radius in km.
EARTH_R == 6371

\* Mutant of HavA: cos(lat1) taken twice.
HavA_Lat1Twice(lat1d, lon1d, lat2d, lon2d) ==
    LET lat1 == radians(lat1d)
        lon1 == radians(lon1d)
        lat2 == radians(lat2d)
        lon2 == radians(lon2d)
        dlat == FSub(lat2, lat1)
        dlon == FSub(lon2, lon1)
        sl   == sin(FHalf(dlon))
    IN  FAdd(FSquare(sin(FHalf(dlat))),
             FMulWide(FMul(FMul(cos(lat1), cos(lat1)), sl), sl))

\* haversine: a = sin(dlat/2)**2 + cos(lat1)*cos(lat2)*sin(dlon/2)**2,
\* scaled by SCALE*SCALE.
HavA(lat1d, lon1d, lat2d, lon2d) ==
    LET lat1 == radians(lat1d)
        lon1 == radians(lon1d)
        lat2 == radians(lat2d)
        lon2 == radians(lon2d)
        dlat == FSub(lat2, lat1)
        dlon == FSub(lon2, lon1)
        sl   == sin(FHalf(dlon))
    IN  FAdd(FSquare(sin(FHalf(dlat))),
             FMulWide(FMul(FMul(cos(lat1), cos(lat2)), sl), sl))

\* route_map.haversine: c = 2*asin(sqrt(a)); return c * r.  In 1/SCALE km.
haversine(lat1d, lon1d, lat2d, lon2d) ==
    LET a == HavA(lat1d, lon1d, lat2d, lon2d)
        c == FAdd(asin(sqrt(a)), asin(sqrt(a)))
    IN  IF IsNaN(c) THEN NaN ELSE c * EARTH_R

\* math.atan2(y, x) for y >= 0, x >= 0 (Taylor of atan on the smaller ratio).
AtanSmall(t) ==
    LET t2 == Mul(t, t)
        t3 == Mul(t2, t)
        t5 == Mul(t3, t2)
        t7 == Mul(t5, t2)
    IN  t - (t3 \div 3) + (t5 \div 5) - (t7 \div 7)

atan2(y, x) ==
    IF IsNaN(y) \/ IsNaN(x) THEN NaN
    ELSE IF y = 0 THEN 0
    ELSE IF x = 0 THEN PI_S \div 2
    ELSE IF y <= x THEN AtanSmall((y * SCALE) \div x)
    ELSE (PI_S \div 2) - AtanSmall((x * SCALE) \div y)

\* dashboard.py's inline distance: c = 2*atan2(sqrt(a), sqrt(1-a));
\* distance = 6371 * c.  In 1/SCALE km.
InlineDistance(lat1d, lon1d, lat2d, lon2d) ==
    LET a  == HavA(lat1d, lon1d, lat2d, lon2d)
        na == IF IsNaN(a) THEN NaN ELSE SCALE * SCALE - a
        h  == atan2(sqrt(a), sqrt(na))
        c  == FAdd(h, h)
    IN  IF IsNaN(c) THEN NaN ELSE EARTH_R * c

\* Mutant of RoundHalfEven: a value exactly halfway goes up.
RoundHalfUp(num, den) ==
    LET q == num \div den
        r == num - q * den
    IN  IF 2 * r < den THEN q ELSE q + 1

\* round(x) of the rational num/den (den > 0) to the nearest integer, a value
\* exactly halfway between two integers going to the even one.
RoundHalfEven(num, den) ==
    LET q == num \div den            \* floor
        r == num - q * den           \* 0 <= r < den
    IN  IF 2 * r < den THEN q
        ELSE IF 2 * r > den THEN q + 1
        ELSE IF q % 2 = 0 THEN q ELSE q + 1

\* round(distance, 2): a distance in 1/SCALE km to hundredths of a km.
Round2(d) == RoundHalfEven(d, SCALE \div 100)

(***************************************************************************)
(* The route (proximity) loops                                             *)
(***************************************************************************)
\* The route threshold in km ("Connect cities within 200km").
ROUTE_KM == 200

\* dashboard.py considers cities[:30] only.
ROUTE_CITY_LIMIT == 30

\* Mutants of Within200: the comparison turned around, and the test written
\* as "not (distance >= 200)", which lets a NaN distance through.
Within200_Inverted(distance) == FLess(ROUTE_KM * SCALE, distance)
Within200_NotGe(distance) == ~(~IsNaN(distance) /\ distance >= ROUTE_KM * SCALE)

\* create_route_map, "if distance < 200": the pair is connected.
Within200(distance) == FLess(distance, ROUTE_KM * SCALE)

\* Mutant of FirstJ: range(i, len(city_data)) pairs a city with itself.
FirstJ_FromI(i) == i

\* create_route_map, range(i + 1, len(city_data)): the first j paired with i.
FirstJ(i) == i + 1

\* generate_central_csv, "if distance < 200".
CsvWithin200(distance) == FLess(distance, ROUTE_KM * SCALE)

\* generate_central_csv, cities[i+1:30]: the first city2 paired with city1.
CsvFirstJ(i) == i + 1

\* One element of location_pairs: (loc1, loc2, distance).
RouteEdge(loc1, loc2, distance) ==
    [loc1 |-> loc1, loc2 |-> loc2, distance |-> distance]

\* The inner loop of create_route_map for row i, from j on: the edges
\* appended, in order.
RECURSIVE RouteRowFrom(_, _, _)
RouteRowFrom(city_data, i, j) ==
    IF j > Len(city_data) THEN <<>>
    ELSE LET loc1 == city_data[i]
             loc2 == city_data[j]
             distance == haversine(loc1.lat, loc1.lon, loc2.lat, loc2.lon)
         IN  (IF Within200(distance)
              THEN <<RouteEdge(loc1, loc2, distance)>> ELSE <<>>)
             \o RouteRowFrom(city_data, i, j + 1)

\* The outer loop of create_route_map from row i on.
RECURSIVE RoutePairsFrom(_, _)
RoutePairsFrom(city_data, i) ==
    IF i > Len(city_data) THEN <<>>
    ELSE RouteRowFrom(city_data, i, FirstJ(i)) \o RoutePairsFrom(city_data, i + 1)

\* Where list.sort puts x in an already sorted list: after every element
\* whose key is not greater (the sort is stable).
InsertPos(sorted, x) ==
    Cardinality({k \in 1..Len(sorted) : ~FLess(x.distance, sorted[k].distance)})

InsertByDistance(sorted, x) ==
    LET p == InsertPos(sorted, x)
    IN  SubSeq(sorted, 1, p) \o <<x>> \o SubSeq(sorted, p + 1, Len(sorted))

\* location_pairs.sort(key=lambda x: x[2]) on the first n elements.
RECURSIVE SortByDistance(_, _)
SortByDistance(pairs, n) ==
    IF n = 0 THEN <<>>
    ELSE InsertByDistance(SortByDistance(pairs, n - 1), pairs[n])

\* create_route_map: location_pairs as the drawing loop reads it.
RouteMapPairs(city_data) ==
    LET pairs == RoutePairsFrom(city_data, 1)
    IN  SortByDistance(pairs, Len(pairs))

\* One 'route' record of generate_central_csv.
RouteRecord(city1, city2, distance) ==
    [data_type |-> "route", from_city |-> city1.city, to_city |-> city2.city,
     from_latitude |-> city1.lat, from_longitude |-> city1.lon,
     to_latitude |-> city2.lat, to_longitude |-> city2.lon,
     distance_km |-> Round2(distance)]

\* cities[:30]
RouteCities(cs) ==
    IF Len(cs) <= ROUTE_CITY_LIMIT THEN cs ELSE SubSeq(cs, 1, ROUTE_CITY_LIMIT)

\* The inner loop of generate_central_csv, section 6, for city1 = cs[i],
\* from city2 = cs[j] on; cs is cities[:30].
RECURSIVE CsvRowFrom(_, _, _)
CsvRowFrom(cs, i, j) ==
    IF j > Len(cs) THEN <<>>
    ELSE LET city1 == cs[i]
             city2 == cs[j]
             distance == InlineDistance(city1.lat, city1.lon, city2.lat, city2.lon)
         IN  (IF CsvWithin200(distance)
              THEN <<RouteRecord(city1, city2, distance)>> ELSE <<>>)
             \o CsvRowFrom(cs, i, j + 1)

\* The outer loop of section 6 from city1 = cs[i] on.
RECURSIVE CsvRoutesFrom(_, _)
CsvRoutesFrom(cs, i) ==
    IF i > Len(cs) THEN <<>>
    ELSE CsvRowFrom(cs, i, CsvFirstJ(i)) \o CsvRoutesFrom(cs, i + 1)

\* The route records of generate_central_csv for config['cities'] = cs.
CsvRouteRecords(cs) == CsvRoutesFrom(RouteCities(cs), 1)

(***************************************************************************)
(* Inputs of the route loops                                               *)
(***************************************************************************)
\* The longest list of located points drawn exhaustively.
MaxCities == 3

\* Coordinates in hundredths of a degree (a lattice over Bangladesh); a
\* latitude may be NaN (invalid numeric input).
RouteLats == {2200, 2300, 2400, NaN}
RouteLons == {9000, 9100}

\* city_data / config['cities'] rows: rows are distinct cities, named here by
\* their position (city_data is one row per city, in name order).
MkCities(coords) ==
    [k \in 1..Len(coords) |-> [city |-> k, lat |-> coords[k][1], lon |-> coords[k][2]]]

\* One list longer than ROUTE_CITY_LIMIT: its last three cities are close
\* to each other and straddle the limit, the others have no valid latitude.
LongCities ==
    [k \in 1..(ROUTE_CITY_LIMIT + 1) |->
        [city |-> k,
         lat  |-> IF k < ROUTE_CITY_LIMIT - 1 THEN NaN ELSE 2200 + 100 * (k % 2),
         lon  |-> 9000 + 100 * (k % 2)]]

CityLists ==
    { MkCities(c) : c \in UNION { [1..n -> RouteLats \X RouteLons] : n \in 0..MaxCities } }
        \cup {LongCities}

(***************************************************************************)
(* Inputs of identify_sweet_spots (idle under SpecRoute)                   *)
(***************************************************************************)
SweetIdle ==
    /\ df = <<>>
    /\ grid_size = 1
    /\ min_visits = 1
    /\ spc = {}
    /\ sweet_spots = <<>>
    /\ raised = ""

RouteIdle ==
    /\ cities = <<>>
    /\ rpc = {}
    /\ location_pairs = <<>>
    /\ route_records = <<>>

PipeIdle ==
    /\ clock = 0
    /\ runs = <<>>

\* generate_synthetic_sales has not been called.
SalesIdle ==
    /\ config = <<>>
    /\ n_records = 0
    /\ beat_cities = <<>>
    /\ stores = <<>>
    /\ sales = <<>>
    /\ regional = [called |-> FALSE, raised |-> "", rows |-> <<>>]

\* No page has been generated.
PageIdle ==
    /\ cityData = <<>>
    /\ nodes = <<>>
    /\ display = <<>>
    /\ currentFilter = <<>>
    /\ map = "undefined"
    /\ timer_fired = FALSE
    /\ cityFilter = <<>>
    /\ last_call = <<>>

\* No map has been drawn and no count categorised.
TierIdle ==
    /\ markers = <<>>
    /\ summary = <<>>
    /\ spot_count = 0
    /\ labels = {}

\* No distance has been asked for.
DistIdle ==
    /\ pair = <<>>
    /\ dist = {}

\* No script has been started and the outputs directory does not exist yet.
MainIdle ==
    /\ script = ""
    /\ pc = 0
    /\ exc = ""
    /\ caught = FALSE
    /\ prompted = FALSE
    /\ status = "idle"
    /\ run_no = 0
    /\ config_file = "ok"
    /\ outputs = {}
    /\ written = {}
    /\ failed_at = 0

(***************************************************************************)
(* The route scripts                                                       *)
(***************************************************************************)
InitRoute ==
    /\ cities \in CityLists
    /\ rpc = {}
    /\ location_pairs = <<>>
    /\ route_records = <<>>
    /\ SweetIdle
    /\ PipeIdle
    /\ MainIdle
    /\ DistIdle
    /\ TierIdle
    /\ PageIdle
    /\ SalesIdle

\* route_map.create_route_map(df): the route connections are built and sorted.
CreateRouteMap ==
    /\ "create_route_map" \notin rpc
    /\ location_pairs' = RouteMapPairs(cities)
    /\ rpc' = rpc \cup {"create_route_map"}
    /\ UNCHANGED <<cities, route_records, sweetVars, pipeVars, mainVars, salesVars, distVars, tierVars, pageVars>>

\* dashboard.generate_central_csv(): section 6 emits the route records.
GenerateCentralCsv ==
    /\ "generate_central_csv" \notin rpc
    /\ route_records' = CsvRouteRecords(cities)
    /\ rpc' = rpc \cup {"generate_central_csv"}
    /\ UNCHANGED <<cities, location_pairs, sweetVars, pipeVars, mainVars, salesVars, distVars, tierVars, pageVars>>

NextRoute == CreateRouteMap \/ GenerateCentralCsv

SpecRoute == InitRoute /\ [][NextRoute]_vars

(***************************************************************************)
(* identify_sweet_spots (sweet_spot_map.py)                                *)
(***************************************************************************)
\* (x / grid_size).round() * grid_size: Series.round rounds half to even.
GridKey(x, g) == RoundHalfEven(x, g) * g

\* df['lat_grid'] = ...; df['lon_grid'] = ...: the caller's frame gets the
\* two columns.
WithGrid(frame, g) ==
    [k \in 1..Len(frame) |->
        frame[k] @@ ("lat_grid" :> GridKey(frame[k].latitude, g))
                 @@ ("lon_grid" :> GridKey(frame[k].longitude, g))]

\* The group key of a row.
RowKey(row) == <<row.lat_grid, row.lon_grid>>

KeyLess(a, b) == a[1] < b[1] \/ (a[1] = b[1] /\ a[2] < b[2])

\* groupby(...) sorts the group keys ascending.
RECURSIVE SortedKeys(_)
SortedKeys(keys) ==
    IF keys = {} THEN <<>>
    ELSE LET least == CHOOSE a \in keys : \A b \in keys : a = b \/ KeyLess(a, b)
         IN  <<least>> \o SortedKeys(keys \ {least})

\* Mutant of GroupRows: rows grouped by lat_grid alone.
GroupRows_LatOnly(frame, key) == {k \in 1..Len(frame) : frame[k].lat_grid = key[1]}

\* The positions of the rows of one group.
GroupRows(frame, key) == {k \in 1..Len(frame) : RowKey(frame[k]) = key}

RECURSIVE SumOver(_, _, _)
SumOver(frame, rows, col) ==
    IF rows = {} THEN 0
    ELSE LET k == CHOOSE r \in rows : TRUE
         IN  frame[k][col] + SumOver(frame, rows \ {k}, col)

\* Alphabetical rank of the city and region names (Series.mode sorts).
NameRank ==
    [Dhaka |-> 1, Gazipur |-> 2, Central |-> 1, North |-> 2]

\* Mutant of ModeFirst: of the most frequent values, the one met first.
ModeFirst_FirstSeen(frame, rows, col) ==
    LET Count(v) == Cardinality({k \in rows : frame[k][col] = v})
        vals  == {frame[k][col] : k \in rows}
        modes == {v \in vals : \A w \in vals : Count(w) <= Count(v)}
        first == CHOOSE k \in rows :
                    /\ frame[k][col] \in modes
                    /\ \A j \in rows : frame[j][col] \in modes => k <= j
    IN  frame[first][col]

\* x.mode()[0]: mode() returns the most frequent values sorted ascending.
ModeFirst(frame, rows, col) ==
    LET Count(v) == Cardinality({k \in rows : frame[k][col] = v})
        vals  == {frame[k][col] : k \in rows}
        modes == {v \in vals : \A w \in vals : Count(w) <= Count(v)}
    IN  CHOOSE v \in modes : \A w \in modes : NameRank[v] <= NameRank[w]

\* Mutant of AggRow: the first two names of the positional renaming swapped.
AggRow_SwappedNames(frame, key) ==
    LET rows == GroupRows(frame, key)
    IN  [latitude |-> key[1],
         longitude |-> key[2],
         total_outlets |-> Cardinality({k \in rows : frame[k].visit_id # NaN}),
         visit_count |-> SumOver(frame, rows, "outlets_visited"),
         unique_salespersons |-> Cardinality({frame[k].salesperson : k \in rows}),
         city |-> ModeFirst(frame, rows, "city"),
         region |-> ModeFirst(frame, rows, "region"),
         total_hours |-> SumOver(frame, rows, "duration_hours")]

\* One row of groupby(...).agg({...}).reset_index() with the renamed columns.
AggRow(frame, key) ==
    LET rows == GroupRows(frame, key)
    IN  [latitude |-> key[1],
         longitude |-> key[2],
         visit_count |-> Cardinality({k \in rows : frame[k].visit_id # NaN}),
         total_outlets |-> SumOver(frame, rows, "outlets_visited"),
         unique_salespersons |-> Cardinality({frame[k].salesperson : k \in rows}),
         city |-> ModeFirst(frame, rows, "city"),
         region |-> ModeFirst(frame, rows, "region"),
         total_hours |-> SumOver(frame, rows, "duration_hours")]

Aggregate(frame) ==
    LET keys == SortedKeys({RowKey(frame[k]) : k \in 1..Len(frame)})
    IN  [n \in 1..Len(keys) |-> AggRow(frame, keys[n])]

\* Mutant of Retained: a strict comparison.
Retained_Strict(visit_count, minv) == visit_count > minv

\* sweet_spots['visit_count'] >= min_visits
Retained(visit_count, minv) == visit_count >= minv

\* sweet_spots[sweet_spots['visit_count'] >= min_visits]
FilterMin(rows, minv) == SelectSeq(rows, LAMBDA r : Retained(r.visit_count, minv))

RECURSIVE SeqMaxFrom(_, _)
SeqMaxFrom(rows, n) ==
    IF n = 0 THEN NaN
    ELSE LET rest == SeqMaxFrom(rows, n - 1)
         IN  IF IsNaN(rest) \/ rows[n].visit_count > rest
             THEN rows[n].visit_count ELSE rest

\* Mutant of MaxVisits: normalising by the total instead of the maximum.
MaxVisits_Total(rows) ==
    IF Len(rows) = 0 THEN NaN ELSE SumOver(rows, 1..Len(rows), "visit_count")

\* sweet_spots['visit_count'].max(): NaN for an empty frame.
MaxVisits(rows) == SeqMaxFrom(rows, Len(rows))

\* visit_count / max_visits, kept as the exact quotient num/den (the float
\* NaN when max_visits is NaN).
Intensity(visit_count, max_visits) == [num |-> visit_count, den |-> max_visits]

\* pd.cut bins [0, 15, 30, inf].
BIN_LOW == 0
BIN_MEDIUM == 15
BIN_HIGH == 30

\* Mutant of Category: left-closed bins, as in "visit_count >= 30".
Category_LeftClosed(visit_count) ==
    IF visit_count < BIN_LOW THEN "NaN"
    ELSE IF visit_count < BIN_MEDIUM THEN "Medium Activity"
    ELSE IF visit_count < BIN_HIGH THEN "High Activity"
    ELSE "Hot Spot"

\* pd.cut(visit_count, bins, labels): right-closed intervals (0,15], (15,30],
\* (30,inf]; a value in no interval gets no category (NaN).
Category(visit_count) ==
    IF visit_count <= BIN_LOW THEN "NaN"
    ELSE IF visit_count <= BIN_MEDIUM THEN "Medium Activity"
    ELSE IF visit_count <= BIN_HIGH THEN "High Activity"
    ELSE "Hot Spot"

\* The intensity and category columns.
Scored(rows) ==
    LET max_visits == MaxVisits(rows)
    IN  [n \in 1..Len(rows) |->
            rows[n] @@ ("intensity" :> Intensity(rows[n].visit_count, max_visits))
                    @@ ("category" :> Category(rows[n].visit_count))]

\* Mutant of DescInsertPos: ascending=True.
DescInsertPos_Asc(sorted, x) ==
    Cardinality({k \in 1..Len(sorted) : sorted[k].visit_count <= x.visit_count})

\* sort_values('visit_count', ascending=False): where a row goes in the rows
\* already placed, i.e. after every row whose count is not smaller (frames
\* of this size are sorted by insertion, which keeps ties in order).
DescInsertPos(sorted, x) ==
    Cardinality({k \in 1..Len(sorted) : sorted[k].visit_count >= x.visit_count})

RECURSIVE SortByVisitsDesc(_, _)
SortByVisitsDesc(rows, n) ==
    IF n = 0 THEN <<>>
    ELSE LET sorted == SortByVisitsDesc(rows, n - 1)
             p == DescInsertPos(sorted, rows[n])
         IN  SubSeq(sorted, 1, p) \o <<rows[n]>> \o SubSeq(sorted, p + 1, Len(sorted))

\* The value identify_sweet_spots returns for a frame that has its columns.
SweetSpotsOf(frame, g, minv) ==
    LET scored == Scored(FilterMin(Aggregate(WithGrid(frame, g)), minv))
    IN  SortByVisitsDesc(scored, Len(scored))

(***************************************************************************)
(* Inputs of identify_sweet_spots                                          *)
(***************************************************************************)
\* The longest visit list drawn exhaustively.
MaxVisitRows == 3

\* The largest min_visits drawn besides the default.
MaxMinVisits == 3

\* The largest single-cell block of visits.
MaxBlock == 31

\* identify_sweet_spots(df, grid_size=0.04, min_visits=8)
DEFAULT_GRID == 4
DEFAULT_MIN_VISITS == 8

\* Visits as generate_visit_data builds them (coordinates in hundredths of a
\* degree, duration in tenths of an hour), without visit_id.  With
\* grid_size 0.04 the latitudes 23.78 and 23.82 lie exactly halfway between
\* two cells, as do the longitudes 90.42, 90.46, -0.02 and 0.02.
VisitKinds ==
    { [salesperson |-> "Karim Ahmed", city |-> "Dhaka", region |-> "Central",
       latitude |-> 2378, longitude |-> 9042, outlets_visited |-> 3, duration_hours |-> 15],
      [salesperson |-> "Karim Ahmed", city |-> "Dhaka", region |-> "Central",
       latitude |-> 2382, longitude |-> 9042, outlets_visited |-> 1, duration_hours |-> 5],
      [salesperson |-> "Rahim Hossain", city |-> "Gazipur", region |-> "Central",
       latitude |-> 2383, longitude |-> 9041, outlets_visited |-> 8, duration_hours |-> 40],
      [salesperson |-> "Rahim Hossain", city |-> "Gazipur", region |-> "North",
       latitude |-> 2382, longitude |-> 9046, outlets_visited |-> 8, duration_hours |-> 40],
      [salesperson |-> "Karim Ahmed", city |-> "Gazipur", region |-> "North",
       latitude |-> 0 - 6, longitude |-> 0 - 2, outlets_visited |-> 1, duration_hours |-> 5],
      [salesperson |-> "Rahim Hossain", city |-> "Dhaka", region |-> "Central",
       latitude |-> 0 - 7, longitude |-> 2, outlets_visited |-> 3, duration_hours |-> 15] }

\* visits.append({'visit_id': f'V{i+1:04d}', ...}); pd.DataFrame(visits).
MkFrame(kinds) ==
    [k \in 1..Len(kinds) |-> kinds[k] @@ ("visit_id" :> k)]

BlockA(k) ==
    [salesperson |-> IF k % 2 = 0 THEN "Karim Ahmed" ELSE "Rahim Hossain",
     city |-> "Dhaka", region |-> "Central",
     latitude |-> 2381, longitude |-> 9041,
     outlets_visited |-> 1 + (k % 8), duration_hours |-> 5 + (k % 3)]

BlockB(k) ==
    [salesperson |-> "Karim Ahmed", city |-> "Gazipur", region |-> "Central",
     latitude |-> 2400, longitude |-> 9040,
     outlets_visited |-> 2, duration_hours |-> 10]

\* n visits in one cell followed by m visits in another.
Block(n, m) == [k \in 1..(n + m) |-> IF k <= n THEN BlockA(k) ELSE BlockB(k)]

VisitLists ==
    UNION { [1..n -> VisitKinds] : n \in 0..MaxVisitRows }
        \cup { Block(n, m) : n \in 1..MaxBlock, m \in {0, DEFAULT_MIN_VISITS} }

GridSizes == {DEFAULT_GRID, DEFAULT_GRID + 1}

MinVisitsSet == (1..MaxMinVisits) \cup {DEFAULT_MIN_VISITS}

(***************************************************************************)
(* The sweet spot script                                                   *)
(***************************************************************************)
InitSweet ==
    /\ df \in { MkFrame(v) : v \in VisitLists }
    /\ grid_size \in GridSizes
    /\ min_visits \in MinVisitsSet
    /\ spc = {}
    /\ sweet_spots = <<>>
    /\ raised = ""
    /\ RouteIdle
    /\ PipeIdle
    /\ MainIdle
    /\ DistIdle
    /\ TierIdle
    /\ PageIdle
    /\ SalesIdle

\* Mutant of RaisedBy: the maximum taken with the builtin max(), which
\* raises ValueError on an empty sequence.
RaisedBy_BuiltinMax(frame, g, minv) ==
    IF Len(frame) = 0 THEN "KeyError"
    ELSE IF Len(FilterMin(Aggregate(WithGrid(frame, g)), minv)) = 0 THEN "ValueError"
    ELSE ""

\* The exception identify_sweet_spots raises, "" when it returns.
\* pd.DataFrame([]) has no columns, so df['latitude'] raises KeyError for an
\* empty visit list; on a frame with rows nothing raises: max() of no rows is
\* NaN, the division propagates it, pd.cut with explicit bins and sort_values
\* accept an empty frame.
RaisedBy(frame, g, minv) ==
    IF Len(frame) = 0 THEN "KeyError" ELSE ""

\* identify_sweet_spots(df, grid_size, min_visits) on the frame built by
\* generate_visit_data.
IdentifySweetSpots ==
    /\ "identify_sweet_spots" \notin spc
    /\ spc' = spc \cup {"identify_sweet_spots"}
    /\ raised' = RaisedBy(df, grid_size, min_visits)
    /\ df' = IF Len(df) = 0 THEN df ELSE WithGrid(df, grid_size)
    /\ sweet_spots' = IF raised' = ""
                      THEN SweetSpotsOf(df, grid_size, min_visits)
                      ELSE sweet_spots
    /\ UNCHANGED <<grid_size, min_visits, routeVars, pipeVars, mainVars, salesVars, distVars, tierVars, pageVars>>

NextSweet == IdentifySweetSpots

SpecSweet == InitSweet /\ [][NextSweet]_vars

(***************************************************************************)
(* Properties of the route loops (under SpecRoute)                         *)
(***************************************************************************)
RouteMapDone == "create_route_map" \in rpc
CsvDone == "generate_central_csv" \in rpc

\* 200 km in the unit of a computed distance.
Km200 == ROUTE_KM * SCALE

\* The points generate_central_csv considers: the positions of cities[:30].
CsvConsidered == {k \in 1..Len(cities) : k <= ROUTE_CITY_LIMIT}

\* The distance each script computes for the pair of positions (i, j).
MapDistance(i, j) ==
    haversine(cities[i].lat, cities[i].lon, cities[j].lat, cities[j].lon)
CsvDistance(i, j) ==
    InlineDistance(cities[i].lat, cities[i].lon, cities[j].lat, cities[j].lon)

HasEdge(i, j) ==
    \E k \in 1..Len(location_pairs) :
        location_pairs[k].loc1 = cities[i] /\ location_pairs[k].loc2 = cities[j]
HasRecord(i, j) ==
    \E k \in 1..Len(route_records) :
        /\ route_records[k].from_city = cities[i].city
        /\ route_records[k].to_city = cities[j].city

\* C1: a pair (i, j) of the points handed to a route loop is in its output if
\* and only if i < j and the distance computed for it is strictly below
\* 200 km; every edge of create_route_map carries that computed distance.
C1_EdgeIffBelow200 ==
    /\ RouteMapDone =>
        /\ \A i, j \in 1..Len(cities) :
              HasEdge(i, j) <=> (i < j /\ FLess(MapDistance(i, j), Km200))
        /\ \A k \in 1..Len(location_pairs) :
              LET e == location_pairs[k]
              IN  /\ e.loc1.city \in 1..Len(cities)
                  /\ e.loc2.city \in 1..Len(cities)
                  /\ e.loc1 = cities[e.loc1.city]
                  /\ e.loc2 = cities[e.loc2.city]
                  /\ e.distance = MapDistance(e.loc1.city, e.loc2.city)
                  /\ FLess(e.distance, Km200)
    /\ CsvDone =>
        /\ \A i, j \in CsvConsidered :
              HasRecord(i, j) <=> (i < j /\ FLess(CsvDistance(i, j), Km200))
        /\ \A k \in 1..Len(route_records) :
              /\ route_records[k].from_city \in CsvConsidered
              /\ route_records[k].to_city \in CsvConsidered

\* C1 witness: both loops ran on points of which one pair is connected and
\* another pair is 200 km or more apart.
C1_Witness ==
    /\ RouteMapDone /\ CsvDone
    /\ Len(location_pairs) > 0 /\ Len(route_records) > 0
    /\ \E i, j \in 1..Len(cities) :
          /\ i < j
          /\ ~IsNaN(MapDistance(i, j)) /\ MapDistance(i, j) >= Km200
          /\ ~IsNaN(CsvDistance(i, j)) /\ CsvDistance(i, j) >= Km200

\* The position of an edge's pair in the enumeration (i ascending, then j).
PairBefore(i1, j1, i2, j2) == i1 < i2 \/ (i1 = i2 /\ j1 < j2)

\* location_pairs is the stable sort of the enumeration by distance.
RouteMapStableSorted ==
    \A k, l \in 1..Len(location_pairs) :
        k < l =>
            LET a == location_pairs[k]
                b == location_pairs[l]
            IN  /\ a.distance <= b.distance
                /\ a.distance = b.distance =>
                      PairBefore(a.loc1.city, a.loc2.city, b.loc1.city, b.loc2.city)

\* The route records are in stable ascending order of distance_km.
CsvStableSorted ==
    \A k, l \in 1..Len(route_records) :
        k < l =>
            LET a == route_records[k]
                b == route_records[l]
            IN  /\ a.distance_km <= b.distance_km
                /\ a.distance_km = b.distance_km =>
                      PairBefore(a.from_city, a.to_city, b.from_city, b.to_city)

\* C2: the edges are output in ascending order of distance, ties in the order
\* of enumeration, by create_route_map and by generate_central_csv.
C2_StableSortedBoth ==
    /\ RouteMapDone => RouteMapStableSorted
    /\ CsvDone => CsvStableSorted

\* C3: every edge joins two different points, no unordered pair of points
\* appears twice, and every distance is >= 0.
C3_EdgeInvariant ==
    /\ RouteMapDone =>
        /\ \A k \in 1..Len(location_pairs) :
              /\ location_pairs[k].loc1.city # location_pairs[k].loc2.city
              /\ ~IsNaN(location_pairs[k].distance)
              /\ location_pairs[k].distance >= 0
        /\ \A k, l \in 1..Len(location_pairs) :
              k # l =>
                {location_pairs[k].loc1.city, location_pairs[k].loc2.city}
                    # {location_pairs[l].loc1.city, location_pairs[l].loc2.city}
    /\ CsvDone =>
        /\ \A k \in 1..Len(route_records) :
              /\ route_records[k].from_city # route_records[k].to_city
              /\ route_records[k].distance_km >= 0
        /\ \A k, l \in 1..Len(route_records) :
              k # l =>
                {route_records[k].from_city, route_records[k].to_city}
                    # {route_records[l].from_city, route_records[l].to_city}

\* C3 witness: both loops produced at least two edges, one of them between
\* two points with the same coordinates (distance 0).
C3_Witness ==
    /\ RouteMapDone /\ CsvDone
    /\ Len(location_pairs) >= 2 /\ Len(route_records) >= 2
    /\ \E k \in 1..Len(location_pairs) : location_pairs[k].distance = 0
    /\ \E k \in 1..Len(route_records) : route_records[k].distance_km = 0

\* C4: a pair whose computed distance is NaN is absent from the output of
\* create_route_map, and the other pairs are still all evaluated (present
\* exactly when below 200 km) and returned in stable ascending order.
C4_NaNNotConnected ==
    RouteMapDone =>
        /\ \A i, j \in 1..Len(cities) :
              IsNaN(MapDistance(i, j)) => ~HasEdge(i, j)
        /\ \A i, j \in 1..Len(cities) :
              (i < j /\ ~IsNaN(MapDistance(i, j)) /\ MapDistance(i, j) < Km200)
                  => HasEdge(i, j)
        /\ \A k \in 1..Len(location_pairs) : ~IsNaN(location_pairs[k].distance)
        /\ RouteMapStableSorted

\* C4 witness: create_route_map ran on points with a NaN pair between two
\* connected pairs, and returned two edges.
C4_Witness ==
    /\ RouteMapDone
    /\ Len(cities) >= 3
    /\ \E i, j \in 1..Len(cities) : i < j /\ IsNaN(MapDistance(i, j))
    /\ IsNaN(cities[2].lat)
    /\ Len(location_pairs) >= 1

(***************************************************************************)
(* Properties of identify_sweet_spots (under SpecSweet)                    *)
(***************************************************************************)
\* identify_sweet_spots has returned.
Returned == "identify_sweet_spots" \in spc /\ raised = ""

Events == 1..Len(df)
Cells == 1..Len(sweet_spots)

\* The events bucketed into the cell with a key, and the keys in use.
EventsIn(key) == {k \in Events : <<df[k].lat_grid, df[k].lon_grid>> = key}
EventKeys == {<<df[k].lat_grid, df[k].lon_grid>> : k \in Events}
CellKey(n) == <<sweet_spots[n].latitude, sweet_spots[n].longitude>>
ReturnedKeys == {CellKey(n) : n \in Cells}

RECURSIVE TotalOf(_, _)
TotalOf(rows, col) ==
    IF rows = {} THEN 0
    ELSE LET k == CHOOSE r \in rows : TRUE
         IN  df[k][col] + TotalOf(rows \ {k}, col)

RECURSIVE TotalVisitCount(_)
TotalVisitCount(n) ==
    IF n = 0 THEN 0 ELSE sweet_spots[n].visit_count + TotalVisitCount(n - 1)

\* C5: a grid cell is returned if and only if the number of events bucketed
\* into it is >= min_visits, and every returned cell has
\* visit_count >= min_visits.
C5_RetainedIffMinVisits ==
    Returned =>
        /\ \A key \in EventKeys :
              key \in ReturnedKeys <=> Cardinality(EventsIn(key)) >= min_visits
        /\ \A n \in Cells :
              /\ sweet_spots[n].visit_count >= min_visits
              /\ CellKey(n) \in EventKeys

\* C5 witness: one cell is returned with exactly min_visits events while
\* another cell with events is dropped.
C5_Witness ==
    /\ Returned
    /\ \E n \in Cells : sweet_spots[n].visit_count = min_visits
    /\ \E key \in EventKeys : key \notin ReturnedKeys

\* c is x rounded to a multiple of g, halves going to the even multiple.
IsHalfEvenCell(c, x, g) ==
    /\ c % g = 0
    /\ 2 * Abs(x - c) <= g
    /\ 2 * Abs(x - c) = g => (c \div g) % 2 = 0

\* C6: every event gets the cell key (round(latitude / grid_size) *
\* grid_size, round(longitude / grid_size) * grid_size) with halves rounded
\* to even, and events are grouped together exactly when both key
\* components are equal: returned cells have distinct keys, each counts the
\* events with its key, and with min_visits = 1 every event is in exactly
\* one returned cell.
C6_HalfEvenCellKey ==
    Returned =>
        /\ \A k \in Events :
              /\ IsHalfEvenCell(df[k].lat_grid, df[k].latitude, grid_size)
              /\ IsHalfEvenCell(df[k].lon_grid, df[k].longitude, grid_size)
        /\ \A n, m \in Cells : n # m => CellKey(n) # CellKey(m)
        /\ \A n \in Cells :
              sweet_spots[n].visit_count = Cardinality(EventsIn(CellKey(n)))
        /\ min_visits = 1 =>
              \A k \in Events :
                 Cardinality({n \in Cells :
                    CellKey(n) = <<df[k].lat_grid, df[k].lon_grid>>}) = 1

\* C6 witness: three events at latitudes 23.78, 23.82 and 23.83 with grid
\* size 0.04: the first two are halfway cases (594.5 and 595.5) rounded down
\* and up to even, the second and third share a cell.
C6_Witness ==
    /\ Returned
    /\ grid_size = DEFAULT_GRID /\ min_visits = 1
    /\ Len(df) = 3
    /\ df[1].latitude = 2378 /\ df[1].lat_grid = 2376
    /\ df[2].latitude = 2382 /\ df[2].lat_grid = 2384
    /\ df[3].latitude = 2383 /\ df[3].lat_grid = 2384
    /\ Len(sweet_spots) = 2

\* C7: for every returned cell, visit_count is the number of its events,
\* total_outlets the sum of their outlets_visited, unique_salespersons the
\* number of distinct salespersons among them (between 1 and visit_count),
\* and total_hours the sum of their duration_hours.
C7_AggregatesExact ==
    Returned =>
        \A n \in Cells :
            LET c  == sweet_spots[n]
                ev == EventsIn(CellKey(n))
            IN  /\ c.visit_count = Cardinality(ev)
                /\ c.total_outlets = TotalOf(ev, "outlets_visited")
                /\ c.unique_salespersons = Cardinality({df[k].salesperson : k \in ev})
                /\ 1 <= c.unique_salespersons
                /\ c.unique_salespersons <= c.visit_count
                /\ c.total_hours = TotalOf(ev, "duration_hours")

\* C7 witness: a returned cell with three events of two salespersons.
C7_Witness ==
    /\ Returned
    /\ \E n \in Cells :
          /\ sweet_spots[n].visit_count = 3
          /\ sweet_spots[n].unique_salespersons = 2
          /\ sweet_spots[n].total_outlets > 3

\* Every event lies in a cell that has at least min_visits events.
NoEventBelowThreshold ==
    \A k \in Events :
        Cardinality(EventsIn(<<df[k].lat_grid, df[k].lon_grid>>)) >= min_visits

\* C8: the sum of visit_count over the returned cells is <= the number of
\* input events, with equality exactly when no event falls in a cell with
\* fewer than min_visits events.
C8_CountsBounded ==
    Returned =>
        /\ TotalVisitCount(Len(sweet_spots)) <= Len(df)
        /\ TotalVisitCount(Len(sweet_spots)) = Len(df) <=> NoEventBelowThreshold

\* C8 witness: two cells are returned and a third cell's event is dropped.
C8_Witness ==
    /\ Returned
    /\ Len(sweet_spots) >= 1
    /\ Len(df) = 3
    /\ TotalVisitCount(Len(sweet_spots)) = 2

\* C9: when at least one cell is returned, every intensity is visit_count
\* over the largest returned visit_count, lies in (0, 1], and is 1.0 exactly
\* for the cells holding the maximum (one cell when the maximum is not tied).
C9_IntensityNormalised ==
    (Returned /\ Len(sweet_spots) > 0) =>
        LET top == CHOOSE v \in {sweet_spots[n].visit_count : n \in Cells} :
                      \A n \in Cells : sweet_spots[n].visit_count <= v
        IN  /\ \A n \in Cells :
                  LET c == sweet_spots[n]
                  IN  /\ ~IsNaN(c.intensity.den)
                      /\ c.intensity.num = c.visit_count
                      /\ c.intensity.den = top
                      /\ 0 < c.intensity.num
                      /\ c.intensity.num <= c.intensity.den
                      /\ c.intensity.num = c.intensity.den <=> c.visit_count = top
            /\ Cardinality({n \in Cells : sweet_spots[n].visit_count = top}) = 1
                  => Cardinality({n \in Cells :
                        sweet_spots[n].intensity.num = sweet_spots[n].intensity.den}) = 1

\* C9 witness: three cells are returned, one with intensity 1.0 and the
\* others below it.
C9_Witness ==
    /\ Returned
    /\ Len(sweet_spots) >= 2
    /\ sweet_spots[1].intensity.num = sweet_spots[1].intensity.den
    /\ sweet_spots[2].intensity.num < sweet_spots[2].intensity.den

C10_HotReached ==
    /\ Returned
    /\ \E n \in Cells :
          sweet_spots[n].visit_count = 31 /\ sweet_spots[n].category = "Hot Spot"

\* C11: the returned cells are ordered by visit_count descending: of two
\* consecutive cells the earlier has visit_count >= the later.
C11_SortedByVisitsDesc ==
    Returned =>
        \A n \in Cells :
            n < Len(sweet_spots) =>
                sweet_spots[n].visit_count >= sweet_spots[n + 1].visit_count

\* C11 witness: two cells with different counts are returned, and the one
\* with more visits has the larger group key, so the sort moved it ahead of
\* its place in the group order.
C11_Witness ==
    /\ Returned
    /\ Len(sweet_spots) >= 2
    /\ sweet_spots[1].visit_count > sweet_spots[2].visit_count
    /\ KeyLess(CellKey(2), CellKey(1))

\* How often a value of a column occurs among the events of a cell, the most
\* frequent values, and the one of them met first in the order of the events.
TimesIn(ev, col, v) == Cardinality({k \in ev : df[k][col] = v})
MostFrequent(ev, col) ==
    {v \in {df[k][col] : k \in ev} :
        \A k \in ev : TimesIn(ev, col, df[k][col]) <= TimesIn(ev, col, v)}
FirstEncountered(ev, col) ==
    LET first == CHOOSE k \in ev :
                    /\ df[k][col] \in MostFrequent(ev, col)
                    /\ \A j \in ev : df[j][col] \in MostFrequent(ev, col) => k <= j
    IN  df[first][col]

\* C12 as stated: the city and region of a cell are the most frequent values
\* among its events, a tie going to the value encountered first.
C12_ModeTieFirstEncountered ==
    Returned =>
        \A n \in Cells :
            /\ sweet_spots[n].city = FirstEncountered(EventsIn(CellKey(n)), "city")
            /\ sweet_spots[n].region = FirstEncountered(EventsIn(CellKey(n)), "region")

\* C12 amended: the city and region of a cell are most frequent values among
\* its events, a tie going to the value that sorts first (alphabetically).
C12_ModeTieSortedFirst ==
    Returned =>
        \A n \in Cells :
            LET ev == EventsIn(CellKey(n))
            IN  /\ sweet_spots[n].city \in MostFrequent(ev, "city")
                /\ \A v \in MostFrequent(ev, "city") :
                      NameRank[sweet_spots[n].city] <= NameRank[v]
                /\ sweet_spots[n].region \in MostFrequent(ev, "region")
                /\ \A v \in MostFrequent(ev, "region") :
                      NameRank[sweet_spots[n].region] <= NameRank[v]

\* C12 witness: a returned cell whose first event is in Gazipur and whose
\* second is in Dhaka, one each: the tie goes to Dhaka.
C12_Witness ==
    /\ Returned
    /\ \E n \in Cells :
          LET ev == EventsIn(CellKey(n))
          IN  /\ Cardinality(MostFrequent(ev, "city")) = 2
              /\ FirstEncountered(ev, "city") = "Gazipur"
              /\ sweet_spots[n].city = "Dhaka"

\* identify_sweet_spots has been called (and has returned or raised).
Called == "identify_sweet_spots" \in spc

\* C13: run on zero input events, identify_sweet_spots returns an empty set
\* of cells and raises nothing.
C13_EmptyInputReturnsEmpty ==
    (Called /\ Len(df) = 0) => (raised = "" /\ sweet_spots = <<>>)

\* C14: on a non-empty input of which no grid cell reaches min_visits, the
\* result is an empty collection and nothing is raised.
C14_NoCellReachesMinVisits ==
    (Called /\ Len(df) > 0
        /\ \A key \in EventKeys : Cardinality(EventsIn(key)) < min_visits)
    => (raised = "" /\ sweet_spots = <<>>)

\* C14 witness: three visits with the default min_visits = 8: the call
\* returned, and returned no cell.
C14_Witness ==
    /\ Called /\ raised = ""
    /\ Len(df) = 3
    /\ min_visits = DEFAULT_MIN_VISITS
    /\ \A key \in EventKeys : Cardinality(EventsIn(key)) < min_visits
    /\ sweet_spots = <<>>

\* C15: identify_sweet_spots is pure: when it returns, the visit frame has
\* the rows and the columns it had before the call.
C15_AggregatorLeavesFrameUnchanged ==
    [][("identify_sweet_spots" \notin spc /\ "identify_sweet_spots" \in spc'
          /\ raised' = "")
       => df' = df]_vars

(***************************************************************************)
(* The generator + aggregator pipelines, run under the wall clock          *)
(***************************************************************************)
\* The most runs of a pipeline, and the latest clock reading.
MaxRuns == 2
MaxClock == 3

\* The loop counts of the generators, scaled down: n_visits of
\* generate_visit_data, the visit and sweet spot sections of
\* generate_central_csv.
PipeVisits == 3
CsvVisits == 2
CsvSpots == 2

\* random.seed(seed); np.random.seed(seed): the draws of a run are a
\* function of the seed and of the position in the stream.  A linear
\* congruential stream stands for the two generators.
NextRand(x) == (75 * x + 74) % 65537

RECURSIVE Draw(_, _)
Draw(seed, k) ==
    IF k = 0 THEN NextRand(seed % 65537) ELSE NextRand(Draw(seed, k - 1))

\* date.today(), in days; the clock counts half days.
Today(c) == c \div 2

\* datetime.now().isoformat()
Now(c) == c

\* config['cities'], coordinates in hundredths of a degree.
PipeCities ==
    << [city |-> "Dhaka", lat |-> 2381, lon |-> 9041],
       [city |-> "Gazipur", lat |-> 2400, lon |-> 9042] >>

\* The region of a configured city; a city in no list is 'Central'.
RegionOf(city_name) ==
    IF city_name \in {"Rangpur", "Bogra"} THEN "North" ELSE "Central"

salespersons ==
    << "Karim Ahmed", "Rahim Hossain", "Fatima Begum", "Ayesha Khan",
       "Jamal Uddin", "Nasrin Akter", "Habib Rahman", "Sultana Parvin",
       "Mizanur Rahman", "Shakil Ahmed" >>

\* One iteration of the loop of generate_visit_data, at clock reading c.
VisitRow(seed, i, c) ==
    LET k == 7 * (i - 1)
        city == PipeCities[1 + (Draw(seed, k) % Len(PipeCities))]
    IN  [salesperson |-> salespersons[1 + (Draw(seed, k + 3) % Len(salespersons))],
         city |-> city.city,
         region |-> RegionOf(city.city),
         latitude |-> city.lat + (Draw(seed, k + 1) % 7) - 3,
         longitude |-> city.lon + (Draw(seed, k + 2) % 7) - 3,
         visit_date |-> Today(c) - (Draw(seed, k + 4) % 91),
         outlets_visited |-> 1 + (Draw(seed, k + 5) % 8),
         duration_hours |-> 5 + (Draw(seed, k + 6) % 36)]

\* generate_visit_data(config, n_visits, seed) called at clock reading c.
GenerateVisitData(seed, n, c) ==
    MkFrame([i \in 1..n |-> VisitRow(seed, i, c)])

\* dashboard.generate_central_csv: the salespersons of the visit section.
CsvSalespersons ==
    << "Karim Ahmed", "Rahim Hossain", "Fatima Begum", "Ayesha Khan",
       "Jamal Uddin" >>

\* generate_central_csv, section 2: one 'visit' record.
CsvVisitRecord(seed, i, c) ==
    LET k == 8 * (i - 1)
        city == PipeCities[1 + (Draw(seed, k) % Len(PipeCities))]
    IN  [data_type |-> "visit", record_id |-> i,
         city |-> city.city, region |-> RegionOf(city.city),
         latitude |-> city.lat + (Draw(seed, k + 1) % 9) - 4,
         longitude |-> city.lon + (Draw(seed, k + 2) % 11) - 5,
         salesperson |-> CsvSalespersons[1 + (Draw(seed, k + 3) % Len(CsvSalespersons))],
         coverage_value |-> 1 + (Draw(seed, k + 4) % 6),
         outlets_visited |-> 1 + (Draw(seed, k + 5) % 8),
         duration_hours |-> 5 + (Draw(seed, k + 6) % 36),
         date |-> Today(c) - (Draw(seed, k + 7) % 91)]

\* generate_central_csv, section 5: the category of a sweet spot record.
CsvSpotCategory(visit_count) ==
    IF visit_count >= 30 THEN "Hot Spot"
    ELSE IF visit_count >= 15 THEN "High Activity"
    ELSE "Medium Activity"

\* generate_central_csv, section 5: one 'sweet_spot' record; intensity_score
\* = round(visit_count / 50, 2), in hundredths.
CsvSpotRecord(seed, i) ==
    LET k == 8 * CsvVisits + 6 * (i - 1)
        city == PipeCities[1 + (Draw(seed, k) % Len(PipeCities))]
        visit_count == 8 + (Draw(seed, k + 1) % 43)
    IN  [data_type |-> "sweet_spot", record_id |-> i,
         city |-> city.city, region |-> RegionOf(city.city),
         latitude |-> city.lat + (Draw(seed, k + 2) % 7) - 3,
         longitude |-> city.lon + (Draw(seed, k + 3) % 9) - 4,
         visit_count |-> visit_count,
         total_outlets |-> 10 + (Draw(seed, k + 4) % 71),
         unique_salespersons |-> 2 + (Draw(seed, k + 5) % 7),
         intensity_score |-> 2 * visit_count,
         category |-> CsvSpotCategory(visit_count)]

\* pd.DataFrame(all_records); df['generated_at'] = datetime.now().isoformat():
\* the rows of central_sales_data.csv written at clock reading c.
CentralCsv(seed, c) ==
    LET all_records ==
            [i \in 1..CsvVisits |-> CsvVisitRecord(seed, i, c)]
            \o [i \in 1..CsvSpots |-> CsvSpotRecord(seed, i)]
            \o CsvRouteRecords(PipeCities)
    IN  [n \in 1..Len(all_records) |->
            all_records[n] @@ ("generated_at" :> Now(c))]

\* The seeds a caller passes to generate_visit_data (42 is the default), and
\* the one generate_central_csv is written with.
VisitSeeds == {42, 43}
CSV_SEED == 42

InitPipe ==
    /\ clock = 0
    /\ runs = <<>>
    /\ RouteIdle
    /\ SweetIdle
    /\ MainIdle
    /\ DistIdle
    /\ TierIdle
    /\ PageIdle
    /\ SalesIdle

\* Time passes.
Tick ==
    /\ clock < MaxClock
    /\ clock' = clock + 1
    /\ UNCHANGED <<runs, routeVars, sweetVars, mainVars, salesVars, distVars, tierVars, pageVars>>

\* sweet_spot_map: generate_visit_data then identify_sweet_spots; the
\* aggregate output is the frame of sweet spots.  min_visits is scaled
\* down with n_visits, so that cells are retained.
RunSweetSpotPipeline(seed) ==
    /\ Len(runs) < MaxRuns
    /\ runs' = Append(runs,
          [pipeline |-> "sweet_spot_map", seed |-> seed, clock |-> clock,
           aggregate |-> SweetSpotsOf(GenerateVisitData(seed, PipeVisits, clock),
                                      DEFAULT_GRID, 1)])
    /\ UNCHANGED <<clock, routeVars, sweetVars, mainVars, salesVars, distVars, tierVars, pageVars>>

\* dashboard: generate_central_csv; the aggregate output is the central CSV.
RunCentralCsv ==
    /\ Len(runs) < MaxRuns
    /\ runs' = Append(runs,
          [pipeline |-> "dashboard", seed |-> CSV_SEED, clock |-> clock,
           aggregate |-> CentralCsv(CSV_SEED, clock)])
    /\ UNCHANGED <<clock, routeVars, sweetVars, mainVars, salesVars, distVars, tierVars, pageVars>>

NextPipe ==
    \/ Tick
    \/ \E seed \in VisitSeeds : RunSweetSpotPipeline(seed)
    \/ RunCentralCsv

SpecPipe == InitPipe /\ [][NextPipe]_vars

(***************************************************************************)
(* Properties of the pipelines (under SpecPipe)                            *)
(***************************************************************************)
SamePipelineAndSeed(a, b) == a.pipeline = b.pipeline /\ a.seed = b.seed

\* C16: two runs of a pipeline with the same seed and the same configuration
\* have identical aggregate outputs, whatever the date and time of each run.
C16_SameSeedSameAggregate ==
    \A i, j \in 1..Len(runs) :
        SamePipelineAndSeed(runs[i], runs[j])
        => runs[i].aggregate = runs[j].aggregate

\* Determinism of the sweet spot pipeline alone: visit_date, the only
\* clock-dependent column, does not enter the aggregate.
SweetSpotPipelineDeterministic ==
    \A i, j \in 1..Len(runs) :
        (SamePipelineAndSeed(runs[i], runs[j]) /\ runs[i].pipeline = "sweet_spot_map")
        => runs[i].aggregate = runs[j].aggregate

(***************************************************************************)
(* The script runs: route_map, sweet_spot_map and heatmap1 as processes    *)
(***************************************************************************)
Scripts == {"route_map", "sweet_spot_map", "heatmap1"}

ConfigStates == {"ok", "missing", "malformed"}

\* A step of a script: kind "config" loads config.json, kind "write" writes
\* the named file into outputs, kind "compute" does neither; in_try tells
\* whether the step stands inside the try block of main; stamped tells
\* whether the file name carries datetime.now().
Step(name, kind, in_try, file, stamped) ==
    [name |-> name, kind |-> kind, in_try |-> in_try, file |-> file,
     stamped |-> stamped]

\* Mutant of RouteMapSteps: no configuration load at module level.
RouteMapSteps_NoModuleLoad ==
    << Step("makedirs", "compute", FALSE, "", FALSE),
       Step("main_load_config", "config", TRUE, "", FALSE),
       Step("generate_synthetic_sales", "compute", TRUE, "", FALSE),
       Step("create_route_map", "compute", TRUE, "", FALSE),
       Step("main_makedirs", "compute", TRUE, "", FALSE),
       Step("save", "write", TRUE, "route_map_bangladesh.html", FALSE),
       Step("to_csv", "write", TRUE, "sales_data_detailed.csv", FALSE),
       Step("export_to_excel", "write", TRUE, "sales_analysis.xlsx", FALSE),
       Step("webbrowser_open", "compute", TRUE, "", FALSE) >>

\* route_map.py run as a script: the module-level statements, then the body
\* of the try block of main.
RouteMapSteps ==
    << Step("makedirs", "compute", FALSE, "", FALSE),
       Step("load_config", "config", FALSE, "", FALSE),
       Step("main_load_config", "config", TRUE, "", FALSE),
       Step("generate_synthetic_sales", "compute", TRUE, "", FALSE),
       Step("create_route_map", "compute", TRUE, "", FALSE),
       Step("main_makedirs", "compute", TRUE, "", FALSE),
       Step("save", "write", TRUE, "route_map_bangladesh.html", FALSE),
       Step("to_csv", "write", TRUE, "sales_data_detailed.csv", FALSE),
       Step("export_to_excel", "write", TRUE, "sales_analysis.xlsx", FALSE),
       Step("webbrowser_open", "compute", TRUE, "", FALSE) >>

\* sweet_spot_map.py run as a script: module level, then main (no try).
SweetSpotSteps ==
    << Step("makedirs", "compute", FALSE, "", FALSE),
       Step("load_config", "config", FALSE, "", FALSE),
       Step("generate_visit_data", "compute", FALSE, "", FALSE),
       Step("identify_sweet_spots", "compute", FALSE, "", FALSE),
       Step("create_sweet_spot_map", "write", FALSE, "sweet_spot_map.html", FALSE),
       Step("export_to_excel", "write", FALSE, "sweet_spot_analysis.xlsx", FALSE),
       Step("print_summary_statistics", "compute", FALSE, "", FALSE) >>

\* heatmap1.py run as a script: main (no try); generate_synthetic_sales
\* builds the rows, makes the directory and writes the CSV itself.
HeatmapSteps ==
    << Step("parse_args", "compute", FALSE, "", FALSE),
       Step("load_config", "config", FALSE, "", FALSE),
       Step("generate_synthetic_sales", "compute", FALSE, "", FALSE),
       Step("makedirs", "compute", FALSE, "", FALSE),
       Step("to_csv", "write", FALSE, "synthetic_sales_data.csv", FALSE),
       Step("create_interactive_map", "write", FALSE, "sales_map.html", FALSE),
       Step("export_to_excel", "write", FALSE, "sales_analysis_.xlsx", TRUE) >>

StepsOf(s) ==
    IF s = "route_map" THEN RouteMapSteps
    ELSE IF s = "sweet_spot_map" THEN SweetSpotSteps
    ELSE HeatmapSteps

\* input("\nPress Enter to exit...") follows the try statement of
\* route_map.main; the other scripts have no prompt.
HasPrompt(s) == s = "route_map"

\* open() of a missing file, json.load of a malformed one.
ConfigError(state) ==
    IF state = "missing" THEN "FileNotFoundError" ELSE "JSONDecodeError"

\* What the computing steps raise (a key missing from the configuration, a
\* bad value), and what writing a file raises.
ComputeErrors == {"KeyError", "ValueError"}
WriteError == "PermissionError"

\* Mutant of Catches: a handler for OSError only.
Catches_OSErrorOnly(kind) ==
    kind \in {"FileNotFoundError", "PermissionError"}

\* except Exception as e: every exception the steps raise is a subclass of
\* Exception.
Catches(kind) ==
    kind \in {"FileNotFoundError", "JSONDecodeError", "PermissionError"}
                \cup ComputeErrors

\* The name of the file a writing step writes at clock reading c.
FileName(step, c) ==
    [file |-> step.file, stamp |-> IF step.stamped THEN c ELSE 0 - 1]

AtStep ==
    /\ status = "running"
    /\ exc = ""
    /\ pc \in 1..Len(StepsOf(script))

CurStep == StepsOf(script)[pc]

InitMain ==
    /\ MainIdle
    /\ PipeIdle
    /\ RouteIdle
    /\ SweetIdle
    /\ DistIdle
    /\ TierIdle
    /\ PageIdle
    /\ SalesIdle

\* python <script>.py, with config.json in state c.
StartRun(s, c) ==
    /\ status # "running"
    /\ run_no < MaxRuns
    /\ script' = s
    /\ config_file' = c
    /\ pc' = 1
    /\ exc' = ""
    /\ caught' = FALSE
    /\ prompted' = FALSE
    /\ status' = "running"
    /\ run_no' = run_no + 1
    /\ written' = {}
    /\ failed_at' = 0
    /\ UNCHANGED <<outputs, routeVars, sweetVars, pipeVars, salesVars, distVars, tierVars, pageVars>>

\* with open('config.json') as f: config = json.load(f)
LoadConfig ==
    /\ AtStep
    /\ CurStep.kind = "config"
    /\ IF config_file = "ok"
       THEN /\ pc' = pc + 1
            /\ UNCHANGED <<exc, failed_at>>
       ELSE /\ exc' = ConfigError(config_file)
            /\ failed_at' = pc
            /\ pc' = pc
    /\ UNCHANGED <<script, caught, prompted, status, run_no, config_file,
                   outputs, written, routeVars, sweetVars, pipeVars, salesVars, distVars, tierVars, pageVars>>

\* A step that writes no file completes.
Compute ==
    /\ AtStep
    /\ CurStep.kind = "compute"
    /\ pc' = pc + 1
    /\ UNCHANGED <<script, exc, caught, prompted, status, run_no, config_file,
                   outputs, written, failed_at, routeVars, sweetVars, pipeVars, salesVars, distVars, tierVars, pageVars>>

\* A step that writes no file raises.
ComputeRaises(kind) ==
    /\ AtStep
    /\ CurStep.kind = "compute"
    /\ exc' = kind
    /\ failed_at' = pc
    /\ UNCHANGED <<script, pc, caught, prompted, status, run_no, config_file,
                   outputs, written, routeVars, sweetVars, pipeVars, salesVars, distVars, tierVars, pageVars>>

\* m.save(...), df.to_csv(...), export_to_excel(...): the file is created or
\* replaced.
WriteFile ==
    /\ AtStep
    /\ CurStep.kind = "write"
    /\ LET name == FileName(CurStep, clock)
       IN  /\ outputs' = {f \in outputs : f.name # name}
                            \cup {[name |-> name, run |-> run_no]}
           /\ written' = written \cup {name}
    /\ pc' = pc + 1
    /\ UNCHANGED <<script, exc, caught, prompted, status, run_no, config_file,
                   failed_at, routeVars, sweetVars, pipeVars, salesVars, distVars, tierVars, pageVars>>

\* The file cannot be written (it is open elsewhere, the disk is full).
WriteRaises ==
    /\ AtStep
    /\ CurStep.kind = "write"
    /\ exc' = WriteError
    /\ failed_at' = pc
    /\ UNCHANGED <<script, pc, caught, prompted, status, run_no, config_file,
                   outputs, written, routeVars, sweetVars, pipeVars, salesVars, distVars, tierVars, pageVars>>

\* except Exception as e: print, traceback.print_exc().
HandleException ==
    /\ status = "running"
    /\ exc # ""
    /\ CurStep.in_try
    /\ Catches(exc)
    /\ caught' = TRUE
    /\ exc' = ""
    /\ pc' = Len(StepsOf(script)) + 1
    /\ UNCHANGED <<script, prompted, status, run_no, config_file, outputs,
                   written, failed_at, routeVars, sweetVars, pipeVars, salesVars, distVars, tierVars, pageVars>>

\* No handler: the interpreter prints the traceback and the process exits.
ExitUnhandled ==
    /\ status = "running"
    /\ exc # ""
    /\ ~(CurStep.in_try /\ Catches(exc))
    /\ status' = "exit_unhandled"
    /\ UNCHANGED <<script, pc, exc, caught, prompted, run_no, config_file,
                   outputs, written, failed_at, routeVars, sweetVars, pipeVars, salesVars, distVars, tierVars, pageVars>>

\* input("\nPress Enter to exit...")
Prompt ==
    /\ status = "running"
    /\ exc = ""
    /\ pc = Len(StepsOf(script)) + 1
    /\ HasPrompt(script)
    /\ ~prompted
    /\ prompted' = TRUE
    /\ UNCHANGED <<script, pc, exc, caught, status, run_no, config_file,
                   outputs, written, failed_at, routeVars, sweetVars, pipeVars, salesVars, distVars, tierVars, pageVars>>

\* The script reaches its end.
ExitOk ==
    /\ status = "running"
    /\ exc = ""
    /\ pc = Len(StepsOf(script)) + 1
    /\ HasPrompt(script) => prompted
    /\ status' = "exit_ok"
    /\ UNCHANGED <<script, pc, exc, caught, prompted, run_no, config_file,
                   outputs, written, failed_at, routeVars, sweetVars, pipeVars, salesVars, distVars, tierVars, pageVars>>

NextMain ==
    \/ \E s \in Scripts, c \in ConfigStates : StartRun(s, c)
    \/ LoadConfig
    \/ Compute
    \/ \E kind \in ComputeErrors : ComputeRaises(kind)
    \/ WriteFile
    \/ WriteRaises
    \/ HandleException
    \/ ExitUnhandled
    \/ Prompt
    \/ ExitOk
    \/ Tick

SpecMain == InitMain /\ [][NextMain]_vars

(***************************************************************************)
(* Properties of the script runs (under SpecMain)                          *)
(***************************************************************************)
Finished == status \in {"exit_ok", "exit_unhandled"}

\* The step of the run that raised.
FailedStep == StepsOf(script)[failed_at]

\* C17: in route_map.main an exception raised by a step of the try block
\* (data generation, map creation, file saving, Excel export) is caught by
\* the handler, which prints the stack trace; the run then reaches the
\* 'Press Enter to exit' prompt, as the run without exception does, and the
\* exception does not leave main.
C17_MainCatchesAndPrompts ==
    (script = "route_map" /\ Finished)
    => /\ (failed_at # 0 /\ FailedStep.in_try)
              => (status = "exit_ok" /\ caught /\ prompted)
       /\ status = "exit_ok" => prompted
       /\ status = "exit_unhandled" => (failed_at # 0 /\ ~FailedStep.in_try)

\* C17 witness: the Excel export of route_map.main raised, the handler ran
\* and the run ended after the prompt, the HTML and the CSV being written.
C17_Witness ==
    /\ script = "route_map"
    /\ status = "exit_ok"
    /\ failed_at # 0
    /\ FailedStep.name = "export_to_excel"
    /\ caught
    /\ prompted

\* C18: with config.json missing or malformed, a run writes no output file,
\* no handler swallows the exception, and the run cannot end normally: it
\* ends with an unhandled exception, raised outside every try block.
C18_BadConfigUnhandledNoOutput ==
    (status # "idle" /\ config_file # "ok")
    => /\ written = {}
       /\ ~caught
       /\ status # "exit_ok"
       /\ Finished => (status = "exit_unhandled" /\ failed_at # 0
                          /\ ~FailedStep.in_try)

\* C18 witness: route_map run with a malformed config.json ended at the
\* module-level load with an unhandled exception.
C18_Witness ==
    /\ script = "route_map"
    /\ config_file = "malformed"
    /\ status = "exit_unhandled"
    /\ exc = "JSONDecodeError"
    /\ failed_at # 0
    /\ FailedStep.name = "load_config"
    /\ written = {}

\* The output files of a script, and those the last run wrote.
OutputFiles(s) ==
    { StepsOf(s)[n].file : n \in {k \in 1..Len(StepsOf(s)) : StepsOf(s)[k].kind = "write"} }

WrittenFiles == { f.file : f \in written }

\* C19: a finished run has written all of its output files or none of them.
C19_AllOrNothing ==
    Finished => (WrittenFiles = {} \/ WrittenFiles = OutputFiles(script))

\* C20: after a run, the files in outputs are exactly the files that run
\* wrote.
C20_OutputsOfLastRunOnly ==
    Finished => outputs = { [name |-> n, run |-> run_no] : n \in written }

(***************************************************************************)
(* The distance functions, applied to a pair of points in both orders      *)
(***************************************************************************)
\* haversineJS of the generated page: toRad is applied to the differences,
\* c = 2 * Math.atan2(Math.sqrt(a), Math.sqrt(1-a)); return R * c.
haversineJS(lat1d, lon1d, lat2d, lon2d) ==
    LET dLat == radians(FSub(lat2d, lat1d))
        dLon == radians(FSub(lon2d, lon1d))
        sa   == sin(FHalf(dLat))
        sl   == sin(FHalf(dLon))
        a    == FAdd(FMulWide(sa, sa),
                     FMulWide(FMul(FMul(cos(radians(lat1d)), cos(radians(lat2d))), sl), sl))
        na   == IF IsNaN(a) THEN NaN ELSE SCALE * SCALE - a
        h    == atan2(sqrt(a), sqrt(na))
        c    == FAdd(h, h)
    IN  IF IsNaN(c) THEN NaN ELSE EARTH_R * c

\* The points drawn: over Bangladesh, one far to the south, and one without
\* a valid latitude.  Hundredths of a degree.
DistLats == {0 - 1000, 2200, 2350, 2400, NaN}
DistLons == {8800, 9000, 9150}
DistPoints == { [lat |-> la, lon |-> lo] : la \in DistLats, lo \in DistLons }

Measured(fn) == \E d \in dist : d.fn = fn

InitDist ==
    /\ pair \in DistPoints \X DistPoints
    /\ dist = {}
    /\ RouteIdle
    /\ SweetIdle
    /\ PipeIdle
    /\ MainIdle
    /\ TierIdle
    /\ PageIdle
    /\ SalesIdle

\* route_map.haversine(lat1, lon1, lat2, lon2), on the pair and on the
\* swapped pair.
CallHaversine ==
    /\ ~Measured("haversine")
    /\ LET a == pair[1]
           b == pair[2]
       IN  dist' = dist \cup
              {[fn |-> "haversine",
                ab |-> haversine(a.lat, a.lon, b.lat, b.lon),
                ba |-> haversine(b.lat, b.lon, a.lat, a.lon)]}
    /\ UNCHANGED <<pair, routeVars, sweetVars, pipeVars, mainVars, salesVars, tierVars, pageVars>>

\* The inline computation of dashboard.generate_central_csv.
CallInlineDistance ==
    /\ ~Measured("inline")
    /\ LET a == pair[1]
           b == pair[2]
       IN  dist' = dist \cup
              {[fn |-> "inline",
                ab |-> InlineDistance(a.lat, a.lon, b.lat, b.lon),
                ba |-> InlineDistance(b.lat, b.lon, a.lat, a.lon)]}
    /\ UNCHANGED <<pair, routeVars, sweetVars, pipeVars, mainVars, salesVars, tierVars, pageVars>>

\* haversineJS(lat1, lon1, lat2, lon2) of the generated page.
CallHaversineJS ==
    /\ ~Measured("haversineJS")
    /\ LET a == pair[1]
           b == pair[2]
       IN  dist' = dist \cup
              {[fn |-> "haversineJS",
                ab |-> haversineJS(a.lat, a.lon, b.lat, b.lon),
                ba |-> haversineJS(b.lat, b.lon, a.lat, a.lon)]}
    /\ UNCHANGED <<pair, routeVars, sweetVars, pipeVars, mainVars, salesVars, tierVars, pageVars>>

NextDist == CallHaversine \/ CallInlineDistance \/ CallHaversineJS

SpecDist == InitDist /\ [][NextDist]_vars

(***************************************************************************)
(* Properties of the distance functions (under SpecDist)                   *)
(***************************************************************************)
\* C21: distance(a, b) = distance(b, a) for the haversine function of
\* route_map.py and for the inline computation of dashboard.py (both are NaN
\* when a coordinate is NaN).
C21_DistanceSymmetric ==
    \A d \in dist : d.fn \in {"haversine", "inline"} => d.ab = d.ba

\* C21 witness: two points that differ in latitude and in longitude, at a
\* positive distance, measured by both functions in both orders.
C21_Witness ==
    /\ pair # <<>>
    /\ pair[1].lat # pair[2].lat
    /\ pair[1].lon # pair[2].lon
    /\ Measured("haversine") /\ Measured("inline")
    /\ \A d \in dist : ~IsNaN(d.ab) /\ d.ab > 0 /\ d.ab = d.ba

(***************************************************************************)
(* The sweet spot map and the printed summary                              *)
(***************************************************************************)
\* The visit counts from which a circle is gold, and orange.
MARKER_HOT == 30
MARKER_HIGH == 15

\* create_sweet_spot_map: the colour of the circle of a sweet spot.
MarkerColor(visit_count) ==
    IF visit_count >= MARKER_HOT THEN "#FFD700"
    ELSE IF visit_count >= MARKER_HIGH THEN "#FFA500"
    ELSE "#FFDB58"

\* The legend of the map: the tier each colour stands for ('Hot Spot (30+
\* visits)', 'High Activity (15-29)', 'Medium (8-14 visits)').
LegendTier(color) ==
    IF color = "#FFD700" THEN "Hot Spot"
    ELSE IF color = "#FFA500" THEN "High Activity"
    ELSE "Medium Activity"

\* print_summary_statistics: the tier under which a sweet spot is counted.
SummaryTier(visit_count) ==
    IF visit_count >= MARKER_HOT THEN "Hot Spot"
    ELSE IF visit_count >= MARKER_HIGH /\ visit_count < MARKER_HOT THEN "High Activity"
    ELSE "Medium Activity"

CountTier(rows, tier) ==
    Cardinality({n \in 1..Len(rows) : SummaryTier(rows[n].visit_count) = tier})

\* create_sweet_spot_map(visits_df, sweet_spots_df): one circle per sweet
\* spot, its popup showing the category.
CreateSweetSpotMap ==
    /\ "identify_sweet_spots" \in spc
    /\ raised = ""
    /\ "create_sweet_spot_map" \notin spc
    /\ spc' = spc \cup {"create_sweet_spot_map"}
    /\ markers' = [n \in 1..Len(sweet_spots) |->
                     [visit_count |-> sweet_spots[n].visit_count,
                      color |-> MarkerColor(sweet_spots[n].visit_count),
                      category |-> sweet_spots[n].category]]
    /\ UNCHANGED <<df, grid_size, min_visits, sweet_spots, raised, summary,
                   spot_count, labels, routeVars, pipeVars, mainVars, salesVars, distVars, pageVars>>

\* print_summary_statistics(visits_df, sweet_spots_df): the three tier
\* counts.
PrintSummaryStatistics ==
    /\ "create_sweet_spot_map" \in spc
    /\ "print_summary_statistics" \notin spc
    /\ spc' = spc \cup {"print_summary_statistics"}
    /\ summary' = [t \in {"Hot Spot", "High Activity", "Medium Activity"} |->
                      CountTier(sweet_spots, t)]
    /\ UNCHANGED <<df, grid_size, min_visits, sweet_spots, raised, markers,
                   spot_count, labels, routeVars, pipeVars, mainVars, salesVars, distVars, pageVars>>

NextSweetMap == IdentifySweetSpots \/ CreateSweetSpotMap \/ PrintSummaryStatistics

SpecSweetMap == InitSweet /\ [][NextSweetMap]_vars

(***************************************************************************)
(* Properties of the sweet spot map (under SpecSweetMap)                   *)
(***************************************************************************)
CountCategory(rows, category) ==
    Cardinality({n \in 1..Len(rows) : rows[n].category = category})

\* C23: for every retained sweet spot the tier of its circle's colour is its
\* category, and the summary counts as many sweet spots in each tier as carry
\* that category.
C23_MapTierIsCategory ==
    /\ \A n \in 1..Len(markers) :
          LegendTier(markers[n].color) = markers[n].category
    /\ "print_summary_statistics" \in spc
          => \A t \in DOMAIN summary : summary[t] = CountCategory(sweet_spots, t)

(***************************************************************************)
(* The two categorisations of a visit count                                *)
(***************************************************************************)
\* visit_count = random.randint(8, 50) in generate_central_csv.
SPOT_MIN == 8
SPOT_MAX == 50

Labelled(by) == \E l \in labels : l.by = by

InitCategory ==
    /\ spot_count \in SPOT_MIN..SPOT_MAX
    /\ labels = {}
    /\ markers = <<>>
    /\ summary = <<>>
    /\ RouteIdle
    /\ SweetIdle
    /\ PipeIdle
    /\ MainIdle
    /\ DistIdle
    /\ PageIdle
    /\ SalesIdle

\* dashboard.generate_central_csv, section 5: the 'category' of the record.
DashboardCategory ==
    /\ ~Labelled("dashboard")
    /\ labels' = labels \cup
          {[by |-> "dashboard", category |-> CsvSpotCategory(spot_count)]}
    /\ UNCHANGED <<markers, summary, spot_count, routeVars, sweetVars, pipeVars,
                   mainVars, salesVars, distVars, pageVars>>

\* sweet_spot_map.identify_sweet_spots: the category pd.cut gives the count.
CutCategory ==
    /\ ~Labelled("identify_sweet_spots")
    /\ labels' = labels \cup
          {[by |-> "identify_sweet_spots", category |-> Category(spot_count)]}
    /\ UNCHANGED <<markers, summary, spot_count, routeVars, sweetVars, pipeVars,
                   mainVars, salesVars, distVars, pageVars>>

NextCategory == DashboardCategory \/ CutCategory

SpecCategory == InitCategory /\ [][NextCategory]_vars

\* C24: for every visit_count in 8..50 the category written by
\* generate_central_csv is the category identify_sweet_spots assigns.
C24_DashboardCategoryAgrees ==
    \A a, b \in labels : a.category = b.category

(***************************************************************************)
(* Strings of the generated route map page, as sequences of characters     *)
(***************************************************************************)
LowerLetters ==
    << "a", "b", "c", "d", "e", "f", "g", "h", "i", "j", "k", "l", "m",
       "n", "o", "p", "q", "r", "s", "t", "u", "v", "w", "x", "y", "z" >>

UpperLetters ==
    << "A", "B", "C", "D", "E", "F", "G", "H", "I", "J", "K", "L", "M",
       "N", "O", "P", "Q", "R", "S", "T", "U", "V", "W", "X", "Y", "Z" >>

Digits == {"0", "1", "2", "3", "4", "5", "6", "7", "8", "9"}

Range(f) == { f[k] : k \in DOMAIN f }

\* [a-zA-Z0-9]
IsAlnum(ch) == ch \in Range(LowerLetters) \cup Range(UpperLetters) \cup Digits

\* toLowerCase() of one character.
LowerChar(ch) ==
    IF ch \in Range(UpperLetters)
    THEN LowerLetters[CHOOSE k \in DOMAIN UpperLetters : UpperLetters[k] = ch]
    ELSE ch

\* str.toLowerCase()
toLowerCase(str) == [k \in DOMAIN str |-> LowerChar(str[k])]

\* str.includes(sub)
includes(str, sub) ==
    \E k \in 0..(Len(str) - Len(sub)) : SubSeq(str, k + 1, k + Len(sub)) = sub

\* str.trim(): the blanks at both ends removed.
trim(str) ==
    LET inked == {k \in DOMAIN str : str[k] # " "}
    IN  IF inked = {} THEN <<>>
        ELSE SubSeq(str, CHOOSE k \in inked : \A m \in inked : k <= m,
                         CHOOSE k \in inked : \A m \in inked : k >= m)

\* Python's name.replace(' ', '-')
PyClassName(name) == [k \in DOMAIN name |-> IF name[k] = " " THEN "-" ELSE name[k]]

\* JavaScript's name.replace(/[^a-zA-Z0-9]/g, '-')
safeName(name) == [k \in DOMAIN name |-> IF IsAlnum(name[k]) THEN name[k] ELSE "-"]

(***************************************************************************)
(* The generated route map page: its elements, filterMap and resetMap      *)
(***************************************************************************)
Chattogram == << "C", "h", "a", "t", "t", "o", "g", "r", "a", "m" >>
CoxsBazar == << "C", "o", "x", "'", "s", " ", "B", "a", "z", "a", "r" >>
Dhaka == << "D", "h", "a", "k", "a" >>
Gazipur == << "G", "a", "z", "i", "p", "u", "r" >>

\* city_data as create_route_map groups it (sorted by city), coordinates in
\* hundredths of a degree.
PageCityLists ==
    { << [city |-> Chattogram, lat |-> 2236, lon |-> 9178],
         [city |-> CoxsBazar, lat |-> 2143, lon |-> 9201],
         [city |-> Dhaka, lat |-> 2381, lon |-> 9041],
         [city |-> Gazipur, lat |-> 2400, lon |-> 9042] >>,
      << [city |-> Dhaka, lat |-> 2381, lon |-> 9041],
         [city |-> Gazipur, lat |-> 2400, lon |-> 9042] >> }

\* A class of an element: a fixed word, or a prefix and the name after it.
Class(prefix, name) == <<prefix, name>>

\* className=f"route-{loc1['city'].replace(' ', '-')}-{loc2[...]}", and the
\* same after "distance-".
PyPairClass(prefix, loc1, loc2) ==
    Class(prefix, PyClassName(loc1.city) \o <<"-">> \o PyClassName(loc2.city))

\* An element of the page: its classes, its parent element (0 when it lies
\* in no hideable element) and what it depicts.
Node(classes, parent, depicts, of) ==
    [classes |-> classes, parent |-> parent, depicts |-> depicts, of |-> of]

\* The three elements drawn for the e-th route: the line, and the marker
\* icon holding the distance label.
RouteNodes(edge, e) ==
    LET of == {edge.loc1.city, edge.loc2.city}
    IN  << Node({Class("leaflet-interactive", <<>>),
                 PyPairClass("route", edge.loc1, edge.loc2)}, 0, "route", of),
           Node({Class("leaflet-marker-icon", <<>>),
                 Class("leaflet-interactive", <<>>)}, 0, "icon", of),
           Node({Class("distance-label", <<>>),
                 PyPairClass("distance", edge.loc1, edge.loc2)},
                3 * (e - 1) + 2, "distance", of) >>

\* The three elements drawn for the c-th city, after those of n_routes
\* routes: the circle, and the marker icon holding the city label.
CityNodes(city, c, n_routes) ==
    LET of == {city.city}
    IN  << Node({Class("leaflet-interactive", <<>>),
                 Class("city-marker", <<>>),
                 Class("city", PyClassName(city.city))}, 0, "marker", of),
           Node({Class("leaflet-marker-icon", <<>>),
                 Class("leaflet-interactive", <<>>)}, 0, "icon", of),
           Node({Class("city-label", <<>>),
                 Class("city", PyClassName(city.city))},
                3 * n_routes + 3 * (c - 1) + 2, "label", of) >>

RECURSIVE AllRouteNodes(_, _)
AllRouteNodes(pairs, e) ==
    IF e > Len(pairs) THEN <<>>
    ELSE RouteNodes(pairs[e], e) \o AllRouteNodes(pairs, e + 1)

RECURSIVE AllCityNodes(_, _, _)
AllCityNodes(city_data, c, n_routes) ==
    IF c > Len(city_data) THEN <<>>
    ELSE CityNodes(city_data[c], c, n_routes)
            \o AllCityNodes(city_data, c + 1, n_routes)

\* The elements create_route_map puts on the page for city_data.
PageNodes(city_data) ==
    LET pairs == RouteMapPairs(city_data)
    IN  AllRouteNodes(pairs, 1) \o AllCityNodes(city_data, 1, Len(pairs))

\* document.querySelectorAll('.' + class)
querySelectorAll(cls) == {n \in DOMAIN nodes : cls \in nodes[n].classes}

\* forEach(el => el.style.display = value) over a set of elements.
SetDisplay(disp, els, value) ==
    [n \in DOMAIN disp |-> IF n \in els THEN value ELSE disp[n]]

\* cityData.find(city => name === term || name.includes(term) ||
\* term.includes(name)), all in lower case: the index of the first such
\* city, 0 when there is none.
FindCity(searchTerm) ==
    LET t == toLowerCase(searchTerm)
        hits == {k \in DOMAIN cityData :
                    LET nm == toLowerCase(cityData[k].city)
                    IN  nm = t \/ includes(nm, t) \/ includes(t, nm)}
    IN  IF hits = {} THEN 0 ELSE CHOOSE k \in hits : \A m \in hits : k <= m

\* The cities filterMap treats as connected to the matching city.
ConnectedTo(k) ==
    {o \in DOMAIN cityData :
        /\ cityData[o].city # cityData[k].city
        /\ FLess(haversineJS(cityData[k].lat, cityData[k].lon,
                             cityData[o].lat, cityData[o].lon),
                 ROUTE_KM * SCALE)}

\* The classes filterMap shows for the matching city k.
ShownClasses(k) ==
    LET safeCityName == safeName(cityData[k].city)
    IN  {Class("city", safeCityName)} \cup
        UNION { LET safeOtherName == safeName(cityData[o].city)
                IN  { Class("city", safeOtherName),
                      Class("route", safeCityName \o <<"-">> \o safeOtherName),
                      Class("route", safeOtherName \o <<"-">> \o safeCityName),
                      Class("distance", safeCityName \o <<"-">> \o safeOtherName),
                      Class("distance", safeOtherName \o <<"-">> \o safeCityName) }
                : o \in ConnectedTo(k) }

\* The elements of class leaflet-interactive or leaflet-marker-icon.
Hideable ==
    querySelectorAll(Class("leaflet-interactive", <<>>))
        \cup querySelectorAll(Class("leaflet-marker-icon", <<>>))

\* What the user types into the cityFilter input.
PageTerms ==
    { <<>>,
      << " ", " " >>,
      << "d", "h", "a", "k", "a" >>,
      << " ", "D", "H", "A", "K", "A", " " >>,
      << "G", "a", "z", "i", "p", "u", "r", " ", "1" >>,
      << "c", "o", "x" >>,
      CoxsBazar,
      Chattogram,
      << "x", "y", "z" >> }

\* What the property __leaflet__ of the map's element may hold when the
\* timer reads it; the page's own code never sets it.
MapValues == {"undefined", "leaflet"}

\* The record kept of a handler run.
Call(fn, via, term, matched, alerted, threw) ==
    [fn |-> fn, via |-> via, term |-> term, matched |-> matched,
     alerted |-> alerted, threw |-> threw]

\* The page as the browser has just loaded it: the script has run, the
\* timer is pending.
InitPage ==
    /\ cityData \in PageCityLists
    /\ nodes = PageNodes(cityData)
    /\ display = [n \in DOMAIN nodes |-> ""]
    /\ currentFilter = <<>>
    /\ map = "undefined"
    /\ timer_fired = FALSE
    /\ cityFilter = <<>>
    /\ last_call = Call("", "", <<>>, <<>>, FALSE, FALSE)
    /\ SalesIdle
    /\ RouteIdle
    /\ SweetIdle
    /\ PipeIdle
    /\ MainIdle
    /\ DistIdle
    /\ TierIdle

\* The user edits the input.
TypeTerm(t) ==
    /\ cityFilter # t
    /\ cityFilter' = t
    /\ UNCHANGED <<cityData, nodes, display, currentFilter, map, timer_fired,
                   last_call, routeVars, sweetVars, pipeVars, mainVars, salesVars,
                   distVars, tierVars>>

\* Mutant of NoSearchTerm: the empty term is let through.
NoSearchTerm_Never(searchTerm) == FALSE

\* if (!searchTerm)
NoSearchTerm(searchTerm) == searchTerm = <<>>

\* map.setView(...) throws a TypeError when map is undefined.
SetViewThrows == map = "undefined"

\* filterMap(), started through via: the display of the elements,
\* currentFilter and the record of the call when it ends.
filterMap(via) ==
    LET searchTerm == trim(cityFilter)
        k == FindCity(searchTerm)
    IN  IF NoSearchTerm(searchTerm) \/ k = 0
        THEN [display |-> display,
              currentFilter |-> currentFilter,
              call |-> Call("filterMap", via, cityFilter, <<>>, TRUE, FALSE)]
        ELSE [display |->
                  SetDisplay(SetDisplay(display, Hideable, "none"),
                             UNION {querySelectorAll(c) : c \in ShownClasses(k)},
                             "block"),
              currentFilter |-> cityData[k].city,
              call |-> Call("filterMap", via, cityFilter, cityData[k].city,
                            FALSE, SetViewThrows)]

\* <button onclick="filterMap()">
ClickFilter ==
    LET result == filterMap("click")
    IN  /\ display' = result.display
        /\ currentFilter' = result.currentFilter
        /\ last_call' = result.call
        /\ UNCHANGED <<cityData, nodes, map, timer_fired, cityFilter,
                       routeVars, sweetVars, pipeVars, mainVars, salesVars, distVars,
                       tierVars>>

\* The keypress listener of the input: Enter calls filterMap().
PressEnter ==
    LET result == filterMap("Enter")
    IN  /\ display' = result.display
        /\ currentFilter' = result.currentFilter
        /\ last_call' = result.call
        /\ UNCHANGED <<cityData, nodes, map, timer_fired, cityFilter,
                       routeVars, sweetVars, pipeVars, mainVars, salesVars, distVars,
                       tierVars>>

\* resetMap(), started by a click on Reset.
ClickReset ==
    /\ cityFilter' = <<>>
    /\ currentFilter' = <<>>
    /\ display' = SetDisplay(display, Hideable, "block")
    /\ last_call' = Call("resetMap", "click", <<>>, <<>>, FALSE, SetViewThrows)
    /\ UNCHANGED <<cityData, nodes, map, timer_fired, routeVars, sweetVars,
                   pipeVars, mainVars, salesVars, distVars, tierVars>>

\* setTimeout(() => { map = document.querySelector('.folium-map').__leaflet__ }, 100)
TimerFires ==
    /\ ~timer_fired
    /\ timer_fired' = TRUE
    /\ map' \in MapValues
    /\ UNCHANGED <<cityData, nodes, display, currentFilter, cityFilter,
                   last_call, routeVars, sweetVars, pipeVars, mainVars, salesVars,
                   distVars, tierVars>>

NextPage ==
    \/ \E t \in PageTerms : TypeTerm(t)
    \/ ClickFilter
    \/ PressEnter
    \/ ClickReset
    \/ TimerFires

SpecPage == InitPage /\ [][NextPage]_vars

(***************************************************************************)
(* Properties of the route map page (under SpecPage)                       *)
(***************************************************************************)
\* An element is seen when neither it nor the element holding it is hidden.
Visible(n) ==
    /\ display[n] # "none"
    /\ nodes[n].parent = 0 \/ display[nodes[n].parent] # "none"

\* The last handler run was a filterMap call that matched a city.
FilterMatched == last_call.fn = "filterMap" /\ last_call.matched # <<>>

\* C25: for every city the class filterMap computes is the class
\* create_route_map emitted, so after filterMap matched a city, that city's
\* marker and the routes incident to it are visible.
C25_FilterShowsMatchedCity ==
    /\ \A k \in DOMAIN cityData :
          safeName(cityData[k].city) = PyClassName(cityData[k].city)
    /\ FilterMatched
          => \A n \in DOMAIN nodes :
                (nodes[n].depicts \in {"marker", "route"}
                    /\ last_call.matched \in nodes[n].of)
                => Visible(n)

\* The term is blank, or no city name equals it, contains it or is
\* contained in it (ignoring case).
BlankOrUnmatched(term) ==
    \/ trim(term) = <<>>
    \/ \A k \in DOMAIN cityData :
          LET nm == toLowerCase(cityData[k].city)
              t  == toLowerCase(trim(term))
          IN  nm # t /\ ~includes(nm, t) /\ ~includes(t, nm)

\* C26: a filterMap call whose search term is empty or matches no city
\* leaves the display of every element and currentFilter as they were.
C26_UnmatchedFilterChangesNothing ==
    [][((ClickFilter \/ PressEnter) /\ BlankOrUnmatched(cityFilter))
          => UNCHANGED <<display, currentFilter>>]_vars

\* C26 witness: with a filter in force (elements hidden, currentFilter set),
\* filterMap was called with a term that matches no city, and the filter is
\* still in force.
C26_Witness ==
    /\ last_call.fn = "filterMap"
    /\ last_call.alerted
    /\ last_call.term = << "x", "y", "z" >>
    /\ BlankOrUnmatched(last_call.term)
    /\ currentFilter # <<>>
    /\ \E n \in DOMAIN nodes : display[n] = "none"

\* C27: a handler never reaches map.setView with map uninitialised: a
\* filterMap call that matched a city, and a resetMap call, end without the
\* exception of a call on an undefined map.
C27_MapInitialisedBeforeUse ==
    (last_call.fn = "resetMap" \/ FilterMatched) => ~last_call.threw

(***************************************************************************)
(* route_map.generate_synthetic_sales: regions, beats, stores and sales    *)
(* records, and the 'Regional Analysis' sheet of export_to_excel.          *)
(***************************************************************************)

\* The longest configuration drawn from SalesCityPool, and the largest
\* n_records.
MaxConfigCities == 2
MaxNRecords == 60

\* num_beats = max(1, len(region_cities) // 3)
BEAT_SIZE == 3

\* num_stores = random.randint(5, 15)
STORES_MIN == 5
STORES_MAX == 15

\* The regions dictionary, in insertion order.
regions ==
    << [region |-> "North", initial |-> "N",
        city_list |-> {"Rangpur", "Dinajpur", "Nilphamari", "Gaibandha",
                       "Thakurgaon", "Panchagarh", "Kurigram", "Lalmonirhat",
                       "Saidpur", "Bogra", "Pabna", "Natore", "Sirajganj"}],
       [region |-> "South", initial |-> "S",
        city_list |-> {"Barishal", "Bhola", "Patuakhali", "Barguna",
                       "Pirojpur", "Jhalokati"}],
       [region |-> "East", initial |-> "E",
        city_list |-> {"Sylhet", "Moulvibazar", "Habiganj", "Sunamganj",
                       "Comilla", "Brahmanbaria", "Feni", "Khagrachhari",
                       "Bandarban", "Rangamati", "Cox's Bazar"}],
       [region |-> "West", initial |-> "W",
        city_list |-> {"Khulna", "Kushtia", "Jessore", "Satkhira",
                       "Chuadanga", "Meherpur", "Magura", "Narail",
                       "Jhenaidah", "Rajshahi"}],
       [region |-> "Central", initial |-> "C",
        city_list |-> {"Dhaka", "Narayanganj", "Gazipur", "Tangail",
                       "Kishoreganj", "Manikganj", "Munshiganj", "Madaripur",
                       "Shariatpur", "Faridpur", "Rajbari", "Mymensingh",
                       "Jamalpur", "Sherpur", "Netrokona", "Chandpur",
                       "Chattogram"}] >>

\* region_cities = [c for c in cities if c[0] in city_list]
RegionCities(cfg, r) ==
    SelectSeq(cfg, LAMBDA c : c \in regions[r].city_list)

\* max(a, b) of two integers.
PyMax(a, b) == IF a >= b THEN a ELSE b

NumBeats(cfg, r) == PyMax(1, Len(RegionCities(cfg, r)) \div BEAT_SIZE)

\* seq[i::step] with a 0-based start i.
RECURSIVE Stride(_, _, _)
Stride(seq, i, step) ==
    IF i + 1 > Len(seq) THEN <<>>
    ELSE <<seq[i + 1]>> \o Stride(seq, i + step, step)

\* Mutant of BeatId: the region's initial is dropped.
BeatId_NoRegion(r, i) == "B" \o ToString(i + 1)

\* f"{region[0]}{i+1}"
BeatId(r, i) == regions[r].initial \o ToString(i + 1)

\* d[key] = value on a dictionary kept as a sequence in insertion order: an
\* existing key keeps its place and takes the new value.
DictPut(d, key, value) ==
    IF \E k \in DOMAIN d : d[k].beat_id = key
    THEN [k \in DOMAIN d |->
            IF d[k].beat_id = key
            THEN [beat_id |-> key, city_names |-> value] ELSE d[k]]
    ELSE Append(d, [beat_id |-> key, city_names |-> value])

\* The inner loop: for i in range(num_beats), from i on.
RECURSIVE BeatsOfRegion(_, _, _, _)
BeatsOfRegion(d, cfg, r, i) ==
    IF i >= NumBeats(cfg, r) THEN d
    ELSE BeatsOfRegion(
           DictPut(d, BeatId(r, i),
                   Stride(RegionCities(cfg, r), i, NumBeats(cfg, r))),
           cfg, r, i + 1)

\* The outer loop: for region, city_list in regions.items(), from r on.
RECURSIVE BeatCitiesFrom(_, _, _)
BeatCitiesFrom(d, cfg, r) ==
    IF r > Len(regions) THEN d
    ELSE BeatCitiesFrom(BeatsOfRegion(d, cfg, r, 0), cfg, r + 1)

BeatCities(cfg) == BeatCitiesFrom(<<>>, cfg, 1)

\* The (beat, city) pairs in the order the store loops visit them; a city
\* that is not in city_names is skipped.
RECURSIVE BeatCityPairs(_, _, _)
BeatCityPairs(bc, cfg, b) ==
    IF b > Len(bc) THEN <<>>
    ELSE LET names == SelectSeq(bc[b].city_names,
                                LAMBDA c : \E k \in DOMAIN cfg : cfg[k] = c)
         IN  [k \in DOMAIN names |->
                [beat_id |-> bc[b].beat_id, city |-> names[k]]]
             \o BeatCityPairs(bc, cfg, b + 1)

\* next(r for r, cities in regions.items() if city_name in cities)
StoreRegion(city_name) ==
    LET first == CHOOSE r \in DOMAIN regions :
                   /\ city_name \in regions[r].city_list
                   /\ \A q \in 1..(r - 1) : city_name \notin regions[q].city_list
    IN  regions[first].region

\* f"{i:03d}"
Pad3(i) ==
    IF i < 10 THEN "00" \o ToString(i)
    ELSE IF i < 100 THEN "0" \o ToString(i)
    ELSE ToString(i)

\* f"{beat_id}-{i:03d}"
StoreId(beat_id, i) == beat_id \o "-" \o Pad3(i)

StoreSizes == <<"Small", "Medium", "Large">>

\* The stores of the p-th (beat, city) pair.  Of the random stream only the
\* draws of num_stores and of each store's size are kept; rating and
\* coordinates do not enter the model's records.  The pair's draws are read
\* from the stand-in stream starting at the pair's number.
StoresOfPair(seed, pair_no, bcp) ==
    LET pos == pair_no - 1
        num_stores == STORES_MIN
                        + (Draw(seed, pos) % (STORES_MAX - STORES_MIN + 1))
    IN  [i \in 1..num_stores |->
           [store_id |-> StoreId(bcp.beat_id, i),
            size |-> StoreSizes[1 + (Draw(seed, pos + i) % Len(StoreSizes))],
            beat_id |-> bcp.beat_id,
            region |-> StoreRegion(bcp.city),
            city |-> bcp.city]]

\* int(sales_per_store * 0.7) and int(sales_per_store * 1.5): the products
\* of the doubles truncate to these quotients for every sales_per_store
\* below 90.
SmallShare(sales_per_store) == (7 * sales_per_store) \div 10
LargeShare(sales_per_store) == (3 * sales_per_store) \div 2

\* The number of records appended for one store.
RecordsOfStore(store, n, num_stores, num_beats) ==
    LET sales_per_store == (n \div num_stores) \div num_beats
        sized == IF store.size = "Small" THEN SmallShare(sales_per_store)
                 ELSE IF store.size = "Large" THEN LargeShare(sales_per_store)
                 ELSE sales_per_store
    IN  PyMax(1, sized)

\* The records appended for one store; of a record the fields that
\* identify store and place are kept.
SalesOfStore(store, n, num_stores, num_beats) ==
    [k \in 1..RecordsOfStore(store, n, num_stores, num_beats) |->
       [store_id |-> store.store_id,
        store_size |-> store.size,
        beat_id |-> store.beat_id,
        region |-> store.region,
        city |-> store.city]]

\* for store in stores, from store number i on.
RECURSIVE SalesOfStores(_, _, _, _)
SalesOfStores(ss, i, n, num_beats) ==
    IF i > Len(ss) THEN <<>>
    ELSE SalesOfStore(ss[i], n, Len(ss), num_beats)
         \o SalesOfStores(ss, i + 1, n, num_beats)

\* Every store generated, pair after pair.
RECURSIVE AllStores(_, _, _)
AllStores(seed, pairs, pair_no) ==
    IF pair_no > Len(pairs) THEN <<>>
    ELSE StoresOfPair(seed, pair_no, pairs[pair_no])
         \o AllStores(seed, pairs, pair_no + 1)

\* The sales list, pair after pair.
RECURSIVE AllSales(_, _, _, _, _)
AllSales(seed, pairs, pair_no, n, num_beats) ==
    IF pair_no > Len(pairs) THEN <<>>
    ELSE SalesOfStores(StoresOfPair(seed, pair_no, pairs[pair_no]), 1, n,
                       num_beats)
         \o AllSales(seed, pairs, pair_no + 1, n, num_beats)

\* The n_records arguments drawn.
SalesNRecords == {1, MaxNRecords \div 2, MaxNRecords}

\* City names a configuration may hold: at least one of each region and one
\* that no region lists.
SalesCityPool ==
    {"Dhaka", "Gazipur", "Sylhet", "Cox's Bazar", "Rangpur", "Khulna",
     "Barishal", "Noakhali"}

\* A region with six configured cities (two beats), alone and with cities
\* of other regions and of none.
CentralSix ==
    <<"Dhaka", "Narayanganj", "Gazipur", "Tangail", "Kishoreganj", "Manikganj">>

\* config['cities'] by name: rows are distinct cities.
SalesConfigs ==
    {c \in UNION {[1..k -> SalesCityPool] : k \in 0..MaxConfigCities} :
        \A i, j \in DOMAIN c : i # j => c[i] # c[j]}
    \cup {CentralSix, <<"Noakhali", "Sylhet">> \o CentralSix}

SalesSeeds == {42, 43}

\* generate_synthetic_sales(config, n_records, seed), called once by main.
GenerateSyntheticSales ==
    /\ n_records = 0
    /\ \E cfg \in SalesConfigs, n \in SalesNRecords, seed \in SalesSeeds :
          LET bc == BeatCities(cfg)
              pairs == BeatCityPairs(bc, cfg, 1)
          IN  /\ config' = cfg
              /\ n_records' = n
              /\ beat_cities' = bc
              /\ stores' = AllStores(seed, pairs, 1)
              /\ sales' = AllSales(seed, pairs, 1, n, Len(bc))
    /\ UNCHANGED <<regional, routeVars, sweetVars, pipeVars, mainVars,
                   distVars, tierVars, pageVars>>

\* groupby sorts its keys: the region names in ascending order.
RegionsSorted == <<"Central", "East", "North", "South", "West">>

\* nunique of a column over the records of one region.
NUnique(rows, region, col) ==
    Cardinality({rows[k][col] : k \in {j \in DOMAIN rows : rows[j].region = region}})

\* df.groupby('region').agg({'city': 'nunique', 'store_id': 'nunique'})
RegionalAnalysis(rows) ==
    LET present == SelectSeq(RegionsSorted,
                             LAMBDA r : \E k \in DOMAIN rows : rows[k].region = r)
    IN  [k \in DOMAIN present |->
           [Region |-> present[k],
            Cities |-> NUnique(rows, present[k], "city"),
            Stores |-> NUnique(rows, present[k], "store_id")]]

\* export_to_excel(sales_df): an empty frame has no 'sale_date' column.
ExportToExcel ==
    /\ n_records > 0
    /\ ~regional.called
    /\ regional' = IF Len(sales) = 0
                   THEN [called |-> TRUE, raised |-> "KeyError", rows |-> <<>>]
                   ELSE [called |-> TRUE, raised |-> "",
                         rows |-> RegionalAnalysis(sales)]
    /\ UNCHANGED <<config, n_records, beat_cities, stores, sales, routeVars,
                   sweetVars, pipeVars, mainVars, distVars, tierVars, pageVars>>

InitSales ==
    /\ SalesIdle
    /\ RouteIdle
    /\ SweetIdle
    /\ PipeIdle
    /\ MainIdle
    /\ DistIdle
    /\ TierIdle
    /\ PageIdle

NextSales == GenerateSyntheticSales \/ ExportToExcel

SpecSales == InitSales /\ [][NextSales]_vars

(***************************************************************************)
(* Properties of generate_synthetic_sales.                                 *)
(***************************************************************************)

\* The stores generated for a region, and the beats that hold a city.
StoresOfRegion(region) == {k \in DOMAIN stores : stores[k].region = region}
BeatsHolding(city_name) ==
    {b \in DOMAIN beat_cities : city_name \in Range(beat_cities[b].city_names)}
BeatIdsOf(r) == {BeatId(r, i) : i \in 0..Len(config)}

\* C28: a store_id identifies one store: no store_id occurs in records of
\* two different cities, and the 'Stores' count of every row of the
\* regional analysis (distinct store_id values of the region) is the number
\* of stores generated for that region.
C28_StoreIdIdentifiesStore ==
    /\ \A a, b \in DOMAIN sales :
          sales[a].store_id = sales[b].store_id => sales[a].city = sales[b].city
    /\ \A k \in DOMAIN regional.rows :
          regional.rows[k].Stores
            = Cardinality(StoresOfRegion(regional.rows[k].Region))

\* C29: after a call, every configured city that a region lists is held by
\* exactly one beat, once, and that beat is one of the region's; no beat
\* overwrote another (there are as many beats as the regions' num_beats add
\* up to, under pairwise distinct ids); a configured city has records iff
\* some region lists it; and every record's region lists the record's city.
C29_BeatsPartitionRegions ==
    n_records > 0 =>
      /\ \A k \in DOMAIN config : \A r \in DOMAIN regions :
            config[k] \in regions[r].city_list =>
              /\ Cardinality(BeatsHolding(config[k])) = 1
              /\ \A b \in BeatsHolding(config[k]) :
                    /\ beat_cities[b].beat_id \in BeatIdsOf(r)
                    /\ Cardinality({j \in DOMAIN beat_cities[b].city_names :
                                      beat_cities[b].city_names[j] = config[k]}) = 1
      /\ \A r, q \in DOMAIN regions : r # q => BeatIdsOf(r) \cap BeatIdsOf(q) = {}
      /\ \A a, b \in DOMAIN beat_cities :
            a # b => beat_cities[a].beat_id # beat_cities[b].beat_id
      /\ Cardinality({<<r, i>> \in (DOMAIN regions) \X (0..Len(config)) :
                        \E b \in DOMAIN beat_cities :
                          /\ beat_cities[b].beat_id = BeatId(r, i)
                          /\ i < NumBeats(config, r)})
           = Len(beat_cities)
      /\ \A k \in DOMAIN config :
            (\E a \in DOMAIN sales : sales[a].city = config[k])
              <=> (\E r \in DOMAIN regions : config[k] \in regions[r].city_list)
      /\ \A a \in DOMAIN sales : \E r \in DOMAIN regions :
            /\ regions[r].region = sales[a].region
            /\ sales[a].city \in regions[r].city_list

\* A call with a region of two beats, a city of another region and a city
\* that no region lists.
C29_Witness ==
    /\ n_records > 0
    /\ config = <<"Noakhali", "Sylhet">> \o CentralSix
    /\ Cardinality(UNION {BeatsHolding(c) : c \in Range(CentralSix)}) = 2
    /\ Len(sales) > 0

\* C30: a call returns at most n_records records, and at least one record
\* for every generated store.
C30_AtMostNRecords ==
    n_records > 0 =>
      /\ Len(sales) <= n_records
      /\ \A k \in DOMAIN stores : \E a \in DOMAIN sales :
            /\ sales[a].store_id = stores[k].store_id
            /\ sales[a].city = stores[k].city
====
